---------------------------- MODULE Spec2Model ----------------------------
(***************************************************************************)
(* Model of the scheduled broadcast dispatcher (leshchenko1979/sender).    *)
(*                                                                         *)
(* Part I  (SpecPool): AccountCollection.session() of account/account.py,  *)
(*         run by two overlapping passes of one deployment against one     *)
(*         shared session store.  A step of the model is the code between  *)
(*         two awaits of the asyncio event loop.                           *)
(* Part II (SpecDispatch): process_setting_outer / send_setting /          *)
(*         handle_slow_mode_error, one asyncio task per rule.              *)
(* Part III (SpecAccount): the life of one Account, start() and stop().    *)
(* Part IV (SpecLab): the scheduling functions applied to drawn arguments. *)
(* Part V  (SpecPass): process_client and publish_stats, one pass over a   *)
(*         client group from load_settings to the alert.                   *)
(* Part VI (SpecForward): SenderAccount._forward_grouped_or_single and     *)
(*         _get_grouped_message_ids over a drawn source chat history.      *)
(* Part VII (SpecSetting): the validator of the account column of a rule.  *)
(***************************************************************************)
EXTENDS Integers, Sequences, FiniteSets, TLC

(***************************************************************************)
(* Bounds                                                                  *)
(***************************************************************************)
NumAccounts == 2

NumRules == 2

Accounts == 1..NumAccounts

\* Two overlapping runs of the same deployment.
Passes == {"A", "B"}

\* icontract.require of AccountCollection.__init__
Modes == {"ignore", "raise", "revalidate"}

VARIABLES
    invalid,      \* [Passes -> Modes]        AccountCollection.invalid
    lockMarker,   \* SUBSET Passes            ".session_lock": the passes that touched it since the last rm (present iff non-empty)
    sessionFile,  \* SUBSET Accounts          "<phone>.session" blobs present in the session store
    pc,           \* [Passes -> ...]          position of the pass in AccountCollection.session()
    startTask,    \* [Passes -> [Accounts -> ...]]  asyncio task of acc.start()
    started,      \* [Passes -> [Accounts -> BOOLEAN]]  Account.started
    stopTask,     \* [Passes -> [Accounts -> ...]]  asyncio task of acc.stop()
    bodyEntered,  \* [Passes -> BOOLEAN]      the block under "async with accounts.session()" began to run
    propagated    \* [Passes -> ...]          the exception that leaves session(), "none" if none

poolVars == <<invalid, lockMarker, sessionFile, pc, startTask, started,
              stopTask, bodyEntered, propagated>>

VARIABLES
    active,           \* [Rules -> BOOLEAN]  Setting.active
    schedule,         \* [Rules -> cron expression]  Setting.schedule, as its list of fields
    chat_id,          \* [Rules -> Chats]    Setting.chat_id
    error,            \* [Rules -> text]     Setting.error
    link,             \* [Rules -> STRING]   Setting.link
    rpc,              \* [Rules -> ...]      position of the rule's task in process_setting_outer
    prior,            \* [Rules -> ...]      what get_last_successful_entry returned to the task
    lastSuccess,      \* [Rules -> Int]      the instant it returned, 0 when it returned none
    attempt,          \* [Rules -> text]     "result" as it stood when add_log_entry was called
    result,           \* [Rules -> text]     the local "result" of the task
    was_processed,    \* [Rules -> BOOLEAN]
    was_successful,   \* [Rules -> BOOLEAN]
    issued,           \* [Rules -> ...]      the platform operation issued through the account: "none", "send" or "forward"
    logRows,          \* rows inserted into log_entries: <<rule, result>>
    logFailed,        \* [Rules -> BOOLEAN]  add_log_entry raised for the rule
    errors,           \* rules with an entry in the errors dict
    writeBacks,       \* the update_settings_in_gsheets calls made, as their field sets
    gathered,         \* the gather of process_client_settings has returned and the counts were taken
    processed_count,
    successful_count,
    slowWait          \* [Rules -> ...]      the SlowModeWaitError the rule's send raised, if any, and its seconds

ruleVars == <<active, schedule, chat_id, error, link, rpc, prior, lastSuccess,
              attempt,
              result, was_processed, was_successful, issued, logRows, logFailed, errors,
              writeBacks, gathered, processed_count, successful_count, slowWait>>

VARIABLES
    app,          \* Account.app: "none" (None) or "client"
    appSession,   \* the session string the client holds, 0 while it is not signed in
    accStarted,   \* Account.started
    accFile,      \* the content of "<phone>.session" in the session store, 0 when absent
    accPc,        \* the await at which start() or stop() stands, "idle" between calls
    accOp,        \* the call made last: "none", "start" or "stop"
    revalidate,   \* the value start() received as its revalidate argument
    accPolicy,    \* the invalid-session policy the caller was given
    accVia,       \* the caller of start(): "pool" (start_sessions) or "scope" (Account.session)
    hadFile,      \* fs.exists(self.filename) as start() found it
    codeAsked,    \* send_code was called during the current start()
    appStarts,    \* the app.start() calls that returned or raised during the current start()
    appStartResult, \* how the last of them ended
    accRaised,    \* the exception that left the last call, "none" if none
    nextSession,  \* the session string the next sign_in yields
    calls         \* the start() and stop() calls made so far

acctVars == <<app, appSession, accStarted, accFile, accPc, accOp, revalidate,
              accPolicy, accVia, hadFile, codeAsked, appStarts, appStartResult,
              accRaised, nextSession, calls>>

VARIABLES
    fn,           \* the function of the scheduling code applied last, "none" before any
    fnArgs,       \* the function to apply (f), its arguments and the clock readings it makes
    fnResult      \* what it returned

labVars == <<fn, fnArgs, fnResult>>

VARIABLES
    passPc,          \* position of process_client: "idle", "start", "set_up", "session", "body", "finally", "done"
    rowActive,       \* [Rules -> BOOLEAN]  the "active" column of the sheet as load_settings read it
    setActive,       \* [Rules -> BOOLEAN]  Setting.active of client.settings
    setError,        \* [Rules -> BOOLEAN]  Setting.error of client.settings is a non-empty text
    taskResult,      \* [Rules -> ...]      how the rule's process_setting_outer ended, "none" before
    passErrors,      \* the keys of the errors dict of process_client
    passProcessed,   \* processed_count of process_client
    passSuccessful,  \* successful_count of process_client
    sessionOutcome,  \* how "async with accounts.session()" was entered, "none" before
    passExit,        \* how the try block of process_client was left, "none" before
    passRaised,      \* the exception process_client raised to process_all_clients
    publishCalls,    \* the publish_stats calls made
    sinkOutcome,     \* how the alert account answered publish_stats, "none" before
    alerts,          \* the alert messages sent to the alert chat, as their bodies
    passWriteBack    \* the fields the final update_settings_in_gsheets wrote, {} if it did not run

passVars == <<passPc, rowActive, setActive, setError, taskResult, passErrors,
              passProcessed, passSuccessful, sessionOutcome, passExit, passRaised,
              publishCalls, sinkOutcome, alerts, passWriteBack>>

VARIABLES
    history,           \* [1..MaxMsgId -> ...]  the source chat: per message id "absent", "single" or its group identifier
    anchor,            \* message_id of the rule's link
    fwdPc,             \* position of _forward_grouped_or_single: "idle", "start", "first", "second", "sort", "forward", "done"
    grouped_messages,  \* the list _get_grouped_message_ids is building
    forwardedIds,      \* the id list handed to ForwardMessagesRequest, << >> while none was
    fetchFailure,      \* the exception an iter_messages loop ended with, "none" if none
    fwdRaised          \* the exception that left _forward_grouped_or_single, "none" if none

fwdVars == <<history, anchor, fwdPc, grouped_messages, forwardedIds, fetchFailure, fwdRaised>>

VARIABLES
    phoneText,         \* the value handed to account_must_be_phone_number, as its characters
    phoneResult        \* what the validator did: "none" before, <<"ok", digits>> or <<"ValueError">>

normVars == <<phoneText, phoneResult>>

vars == <<poolVars, ruleVars, acctVars, labVars, passVars, fwdVars, normVars>>

(***************************************************************************)
(* Part I: the account pool                                                *)
(***************************************************************************)

\* fs.exists(SESSION_LOCK)
LockPresent == lockMarker # {}

\* Account.start(revalidate): the outcomes its task can settle with.
StartOutcomes(p, a) ==
    IF a \notin sessionFile /\ invalid[p] # "revalidate"
    THEN {"raised"}                 \* RuntimeError("No session file ...")
    ELSE {"done", "raised"}         \* app.start() / setup_new_session() succeed or raise

\* Account.stop() on a started account: export + write the blob, app.stop(),
\* started = False; an exception can leave it before or after the write.
StopOutcomes == {"done", "raisedBeforeSave", "raisedAfterSave"}

Settled(p) == \A a \in Accounts : startTask[p][a] \in {"done", "raised"}

SomeStartRaised(p) == \E a \in Accounts : startTask[p][a] = "raised"

\* Mutant: return_when=FIRST_COMPLETED.
WaitSatisfied_firstCompleted(p) ==
    \E a \in Accounts : startTask[p][a] \in {"done", "raised"}

\* asyncio.wait(..., return_when=FIRST_EXCEPTION if invalid != "ignore" else ALL_COMPLETED)
WaitSatisfied(p) ==
    IF invalid[p] # "ignore"
    THEN Settled(p) \/ SomeStartRaised(p)
    ELSE Settled(p)

\* Mutant: the mode test inverted, so a failed start is not raised in "raise" mode.
StartPhaseRaises_inverted(p) == invalid[p] = "ignore" /\ SomeStartRaised(p)

\* "if self.invalid != 'ignore': for exc in done: if exc.exception(): raise"
StartPhaseRaises(p) == invalid[p] # "ignore" /\ SomeStartRaised(p)

\* close_sessions(): one stop() per account that reports itself started
StopTasksCreated(p) ==
    [a \in Accounts |-> IF started[p][a] THEN "pending" ELSE "none"]

\* Mutant: the lock check made after start_sessions() has created its tasks.
TasksAtEntry_checkAfterStart(p, inUse) == [a \in Accounts |-> "pending"]

\* The start tasks the session() call has created when it reaches its first await.
TasksAtEntry(p, inUse) ==
    IF inUse THEN startTask[p] ELSE [a \in Accounts |-> "pending"]

PoolInit ==
    /\ \E m \in Modes : invalid = [p \in Passes |-> m]
    /\ lockMarker = {}
    /\ sessionFile \in SUBSET Accounts
    /\ pc = [p \in Passes |-> "idle"]
    /\ startTask = [p \in Passes |-> [a \in Accounts |-> "none"]]
    /\ started = [p \in Passes |-> [a \in Accounts |-> FALSE]]
    /\ stopTask = [p \in Passes |-> [a \in Accounts |-> "none"]]
    /\ bodyEntered = [p \in Passes |-> FALSE]
    /\ propagated = [p \in Passes |-> "none"]

\* session(): the lock check, and start_sessions() up to "await asyncio.wait"
SessionEnter(p) ==
    /\ pc[p] = "idle"
    /\ pc' = [pc EXCEPT ![p] = IF LockPresent THEN "inUse" ELSE "starting"]
    /\ propagated' = [propagated EXCEPT ![p] = IF LockPresent THEN "SessionsInUse" ELSE @]
    /\ startTask' = [startTask EXCEPT ![p] = TasksAtEntry(p, LockPresent)]
    /\ UNCHANGED <<invalid, lockMarker, sessionFile, started, stopTask, bodyEntered,
                   ruleVars, acctVars, labVars, passVars, fwdVars, normVars>>

\* one acc.start() task settles (it keeps running whatever the pass is doing)
StartTaskSettles(p, a) ==
    /\ startTask[p][a] = "pending"
    /\ \E o \in StartOutcomes(p, a) :
        /\ startTask' = [startTask EXCEPT ![p][a] = o]
        /\ started' = [started EXCEPT ![p][a] = (o = "done")]
    /\ UNCHANGED <<invalid, lockMarker, sessionFile, pc, stopTask, bodyEntered, propagated,
                   ruleVars, acctVars, labVars, passVars, fwdVars, normVars>>

\* asyncio.wait returns: either the start phase raises and the finally block
\* runs (rm, close_sessions up to its gather), or the marker is touched and
\* the body is yielded to.
WaitReturns(p) ==
    /\ pc[p] = "starting"
    /\ WaitSatisfied(p)
    /\ IF StartPhaseRaises(p)
       THEN /\ lockMarker' = {}
            /\ stopTask' = [stopTask EXCEPT ![p] = StopTasksCreated(p)]
            /\ pc' = [pc EXCEPT ![p] = "closing"]
            /\ propagated' = [propagated EXCEPT ![p] = "start"]
            /\ UNCHANGED bodyEntered
       ELSE /\ lockMarker' = lockMarker \cup {p}
            /\ pc' = [pc EXCEPT ![p] = "body"]
            /\ bodyEntered' = [bodyEntered EXCEPT ![p] = TRUE]
            /\ UNCHANGED <<stopTask, propagated>>
    /\ UNCHANGED <<invalid, sessionFile, startTask, started,
                   ruleVars, acctVars, labVars, passVars, fwdVars, normVars>>

\* the body ends, normally or with an exception; the finally block runs
BodyExit(p) ==
    /\ pc[p] = "body"
    /\ \E raises \in BOOLEAN :
        propagated' = [propagated EXCEPT ![p] = IF raises THEN "body" ELSE "none"]
    /\ lockMarker' = {}
    /\ stopTask' = [stopTask EXCEPT ![p] = StopTasksCreated(p)]
    /\ pc' = [pc EXCEPT ![p] = "closing"]
    /\ UNCHANGED <<invalid, sessionFile, startTask, started, bodyEntered,
                   ruleVars, acctVars, labVars, passVars, fwdVars, normVars>>

\* one acc.stop() task settles
StopTaskSettles(p, a) ==
    /\ stopTask[p][a] = "pending"
    /\ \E o \in StopOutcomes :
        /\ stopTask' = [stopTask EXCEPT ![p][a] = IF o = "done" THEN "done" ELSE "raised"]
        /\ started' = [started EXCEPT ![p][a] = IF o = "done" THEN FALSE ELSE @]
        /\ sessionFile' = IF o = "raisedBeforeSave" THEN sessionFile
                          ELSE sessionFile \cup {a}
    /\ UNCHANGED <<invalid, lockMarker, pc, startTask, bodyEntered, propagated,
                   ruleVars, acctVars, labVars, passVars, fwdVars, normVars>>

\* "await asyncio.gather(*stops)" ends: with the first stop exception, or
\* once every stop is done
GatherReturns(p) ==
    /\ pc[p] = "closing"
    /\ \/ /\ \E a \in Accounts : stopTask[p][a] = "raised"
          /\ propagated' = [propagated EXCEPT ![p] = "stop"]
       \/ /\ \A a \in Accounts : stopTask[p][a] \in {"none", "done"}
          /\ UNCHANGED propagated
    /\ pc' = [pc EXCEPT ![p] = "exited"]
    /\ UNCHANGED <<invalid, lockMarker, sessionFile, startTask, started, stopTask, bodyEntered,
                   ruleVars, acctVars, labVars, passVars, fwdVars, normVars>>

PoolNext ==
    \E p \in Passes :
        \/ SessionEnter(p)
        \/ WaitReturns(p)
        \/ BodyExit(p)
        \/ GatherReturns(p)
        \/ \E a \in Accounts : StartTaskSettles(p, a)
        \/ \E a \in Accounts : StopTaskSettles(p, a)

\* no forward of Part VI runs in this specification
ForwardIdle ==
    /\ history = << >>
    /\ anchor = 0
    /\ fwdPc = "idle"
    /\ grouped_messages = << >>
    /\ forwardedIds = << >>
    /\ fetchFailure = "none"
    /\ fwdRaised = "none"

\* no account value of Part VII is validated in this specification
SettingIdle ==
    /\ phoneText = << >>
    /\ phoneResult = <<"idle">>

\* no pass of Part V runs in this specification
PassIdle ==
    /\ passPc = "idle"
    /\ rowActive = << >>
    /\ setActive = << >>
    /\ setError = << >>
    /\ taskResult = << >>
    /\ passErrors = {}
    /\ passProcessed = 0
    /\ passSuccessful = 0
    /\ sessionOutcome = "none"
    /\ passExit = "none"
    /\ passRaised = "none"
    /\ publishCalls = 0
    /\ sinkOutcome = "none"
    /\ alerts = << >>
    /\ passWriteBack = {}

\* no function of Part IV is called in this specification
LabIdle ==
    /\ fn = "none"
    /\ fnArgs = [f |-> "none", w |-> 0, s |-> << >>, h |-> 0, clock |-> 0, clock2 |-> 0,
                 last |-> 0, n |-> 0]
    /\ fnResult = [hours |-> 0, adj |-> [ok |-> FALSE, v |-> << >>],
                   adj2 |-> [ok |-> FALSE, v |-> << >>], due |-> "none"]

\* the single account of Part III is not part of this specification
AccountIdle ==
    /\ app = "none"
    /\ appSession = 0
    /\ accStarted = FALSE
    /\ accFile = 0
    /\ accPc = "idle"
    /\ accOp = "none"
    /\ revalidate = [t |-> "bool", b |-> FALSE, s |-> ""]
    /\ accPolicy = "ignore"
    /\ accVia = "pool"
    /\ hadFile = FALSE
    /\ codeAsked = FALSE
    /\ appStarts = 0
    /\ appStartResult = "none"
    /\ accRaised = "none"
    /\ nextSession = 2
    /\ calls = 0

\* the rules are not part of this specification
RulesIdle ==
    /\ active = << >>
    /\ schedule = << >>
    /\ chat_id = << >>
    /\ error = << >>
    /\ link = << >>
    /\ rpc = << >>
    /\ prior = << >>
    /\ lastSuccess = << >>
    /\ attempt = << >>
    /\ result = << >>
    /\ was_processed = << >>
    /\ was_successful = << >>
    /\ issued = << >>
    /\ logRows = {}
    /\ logFailed = << >>
    /\ errors = {}
    /\ writeBacks = << >>
    /\ gathered = FALSE
    /\ processed_count = 0
    /\ successful_count = 0
    /\ slowWait = << >>

InitPool == PoolInit /\ RulesIdle /\ AccountIdle /\ LabIdle /\ ForwardIdle /\ SettingIdle /\ PassIdle

SpecPool == InitPool /\ [][PoolNext]_vars

(***************************************************************************)
(* Part II: rule dispatch                                                  *)
(***************************************************************************)

Rules == 1..NumRules

Chats == {"@chatA", "@chatB"}

(***************************************************************************)
(* Texts.  A text is the sequence of its chunks; the chunks are cut so     *)
(* that every needle the code searches for ("error", "successfully",       *)
(* "skipped", "already sent") is a chunk of its own.  Russian wording is   *)
(* abbreviated in ASCII, variable parts (traceback, exception text,        *)
(* timestamp) are one opaque chunk.                                        *)
(***************************************************************************)

\* str.lower() on one chunk
LowerChunk(c) ==
    CASE c = "Error" -> "error"
      [] c = "Logging" -> "logging"
      [] c = "Message" -> "message"
      [] c = "Setting" -> "setting"
      [] c = "Schedule" -> "schedule"
      [] c = "No" -> "no"
      [] c = "OK" -> "ok"
      [] OTHER -> c

\* str.lower()
Lower(text) == [i \in DOMAIN text |-> LowerChunk(text[i])]

\* needle in text
Contains(text, needle) == \E i \in DOMAIN text : text[i] = needle

\* Mutant: the test made without lower().
HasError_caseSensitive(text) == Contains(text, "error")

\* "error" in result.lower()
HasError(text) == Contains(Lower(text), "error")

\* "successfully" in result.lower()
HasSuccessfully(text) == Contains(Lower(text), "successfully")

\* Mutant: every text is inserted.
Persisted_everything(text) == TRUE

\* add_log_entry: "skipped" not in result and "already sent" not in result
Persisted(text) == ~Contains(text, "skipped") /\ ~Contains(text, "already sent")

NoText == << >>

RSkipped == <<"Setting", "skipped">>
RNever == <<"Message", "was never sent before:", "logged", "successfully">>
RAlready == <<"Message", "already sent", "recently">>
RCronError == <<"Error", ": Could not figure out the crontab setting:", "<exception text>">>
RTraceback == <<"Error", ":", "<traceback>">>
RLoggingError == <<"Logging", "error", ":", "<traceback>">>
RForwarded == <<"Message", "forwarded", "successfully">>
RSent == <<"Message", "sent", "successfully">>
ROkStamp == <<"OK", ":", "<timestamp>">>

\* humanize_seconds
Humanize(seconds) ==
    IF seconds < 60 THEN <<ToString(seconds), "sekund">>
    ELSE IF seconds < 3600
    THEN LET minutes == seconds \div 60 IN
         IF minutes = 1 THEN <<"1", "minutu">>
         ELSE IF minutes < 5 THEN <<ToString(minutes), "minuty">>
         ELSE <<ToString(minutes), "minut">>
    ELSE LET hours == seconds \div 3600 IN
         IF hours = 1 THEN <<"1", "chas">>
         ELSE IF hours < 5 THEN <<ToString(hours), "chasa">>
         ELSE <<ToString(hours), "chasov">>

(***************************************************************************)
(* Cron expressions: the list of whitespace-separated fields, each field   *)
(* "*", "*/n", a number, a list or a range.  Time is counted in minutes    *)
(* from 00:00 of a Sunday that is the 1st of January.                      *)
(***************************************************************************)

Star == [k |-> "*"]
Step(n) == [k |-> "*/", n |-> n]
Num(n) == [k |-> "num", n |-> n]
List(v) == [k |-> "list", v |-> v]
Range(lo, hi) == [k |-> "range", lo |-> lo, hi |-> hi]

S30 == <<Step(30), Star, Star, Star, Star>>      \* "*/30 * * * *"
S9 == <<Num(0), Num(9), Star, Star, Star>>       \* "0 9 * * *"
BAD4 == <<Step(30), Star, Star, Star>>           \* "*/30 * * *"

Schedules == {S30, S9, BAD4}

FieldMatch(f, v) ==
    CASE f.k = "*" -> TRUE
      [] f.k = "*/" -> v % f.n = 0
      [] f.k = "num" -> v = f.n
      [] f.k = "list" -> v \in f.v
      [] f.k = "range" -> f.lo <= v /\ v <= f.hi
      [] OTHER -> FALSE

\* the calendar of the instants used: January has 31 days, February follows
DayOfMonth(t) == IF t \div 1440 < 31 THEN (t \div 1440) + 1 ELSE (t \div 1440) - 30
MonthOf(t) == IF t \div 1440 < 31 THEN 1 ELSE 2
DayOfWeek(t) == (t \div 1440) % 7

\* the day of t is a day of the expression: the month matches, and the
\* day-of-month and the day-of-week match, either one being enough when both
\* are restricted
DayMatch(s, t) ==
    /\ FieldMatch(s[4], MonthOf(t))
    /\ IF s[3].k # "*" /\ s[5].k # "*"
       THEN FieldMatch(s[3], DayOfMonth(t)) \/ FieldMatch(s[5], DayOfWeek(t))
       ELSE FieldMatch(s[3], DayOfMonth(t)) /\ FieldMatch(s[5], DayOfWeek(t))

\* croniter.croniter(crontab, ...) accepts the expression
CronValid(s) == Len(s) = 5

HourDayMatch(s, t) ==
    /\ FieldMatch(s[2], (t \div 60) % 24)
    /\ DayMatch(s, t)

\* the minutes of the hour h of t's day that are not before t
MinutesLeft(t, h) == (IF h = (t \div 60) % 24 THEN t % 60 ELSE 0)..59

\* the hours of t's day, not before t, in which the expression still fires
FireHours(s, t) ==
    {h \in ((t \div 60) % 24)..23 :
        FieldMatch(s[2], h) /\ \E m \in MinutesLeft(t, h) : FieldMatch(s[1], m)}

\* the first fire time >= t within the hour h of t's day
FirstFireInHour(s, t, h) ==
    (t \div 1440) * 1440 + h * 60
        + CHOOSE m \in MinutesLeft(t, h) :
            FieldMatch(s[1], m) /\ \A k \in MinutesLeft(t, h) : FieldMatch(s[1], k) => m <= k

RECURSIVE FirstFireFrom(_, _)
\* the first fire time >= t
FirstFireFrom(s, t) ==
    IF ~DayMatch(s, t) \/ FireHours(s, t) = {}
    THEN FirstFireFrom(s, ((t \div 1440) + 1) * 1440)
    ELSE FirstFireInHour(s, t, CHOOSE h \in FireHours(s, t) : \A g \in FireHours(s, t) : h <= g)

\* Mutant: a fire time at the start instant itself is returned.
GetNext_inclusive(s, start) == FirstFireFrom(s, start)

\* croniter(expr, start).get_next(): the first fire time strictly after start
GetNext(s, start) == FirstFireFrom(s, start + 1)

\* settings.check_cron
check_cron(crontab, last_run, n) == GetNext(crontab, last_run) <= n

\* Mutant: the instants are left in UTC.
MoscowWallClock_utc(t) == t

\* astimezone(ZoneInfo("Europe/Moscow")).replace(tzinfo=None): UTC+3
MoscowWallClock(t) == t + 3 * 60

\* settings.check_cron_tz
check_cron_tz(crontab, last_run, n) ==
    check_cron(crontab, MoscowWallClock(last_run), MoscowWallClock(n))

SampleLimit == 100

HorizonDays == 7

WeeklyHours == 24 * 7

\* datetime.now() of the pass: Monday 09:20 UTC (12:20 in Moscow), in minutes
PassNow == 33 * 60 + 20

Fires(s, t) == HourDayMatch(s, t) /\ FieldMatch(s[1], t % 60)

\* the fire times within 7 days after t
FireTimes(s, t) == {u \in (t + 1)..(t + HorizonDays * 1440) : Fires(s, u)}

\* the list "runs" built by the loop of calculate_interval_hours out of the
\* fire times F of the horizon, n of them: the first SampleLimit ones, as
\* <<first run, last run, number of runs>>
RunsOf(F, n) ==
    IF n = 0 THEN <<0, 0, 0>>
    ELSE <<CHOOSE u \in F : \A v \in F : u <= v,
           IF n <= SampleLimit
           THEN CHOOSE u \in F : \A v \in F : v <= u
           ELSE CHOOSE u \in F : Cardinality({v \in F : v <= u}) = SampleLimit,
           IF n <= SampleLimit THEN n ELSE SampleLimit>>

SampleRunsOf(F) == RunsOf(F, Cardinality(F))

\* the loop of calculate_interval_hours started at the instant t
SampleRuns(s, t) == SampleRunsOf(FireTimes(s, t))

\* the average of the intervals between consecutive runs, as the fraction
\* <<minutes, 60 * intervals>> of hours; a week for fewer than 2 runs
AverageInterval(runs) ==
    IF runs[3] < 2 THEN <<WeeklyHours, 1>>
    ELSE <<runs[2] - runs[1], 60 * (runs[3] - 1)>>

\* calculate_interval_hours computed from the instant t
IntervalFrom(s, t) ==
    IF ~CronValid(s) THEN <<WeeklyHours, 1>> ELSE AverageInterval(SampleRuns(s, t))

\* the schedule adjust_cron_interval writes for required_hours
Rewritten(s, required_hours) ==
    IF required_hours > 24
    THEN <<Num(0), Num(0), s[3], s[4], s[5]>>
    ELSE <<Num(0), Step(required_hours), s[3], s[4], s[5]>>

\* the seconds attribute of SlowModeWaitError; known = FALSE: no such attribute
WaitInputs ==
    {[known |-> FALSE, seconds |-> 0], [known |-> TRUE, seconds |-> 0],
     [known |-> TRUE, seconds |-> 1800], [known |-> TRUE, seconds |-> 90000]}

\* handle_slow_mode_error, step 1: wait_seconds clamped to one hour when <= 0
ClampWait(wait_seconds) == IF wait_seconds <= 0 THEN 3600 ELSE wait_seconds

\* Mutant: no 20% buffer.
RequiredHours_noBuffer(wait_seconds) == (ClampWait(wait_seconds) + 3599) \div 3600

\* ceil((wait_seconds * 1.2) / 3600)
RequiredHours(wait_seconds) == (ClampWait(wait_seconds) * 12 + 35999) \div 36000

\* the expressions a rule can hold during a pass
ReachableSchedules ==
    Schedules \cup {Rewritten(s, h) : s \in {x \in Schedules : Len(x) = 5}, h \in {RequiredHours(w.seconds) : w \in WaitInputs}}

\* calculate_interval_hours at the instant of the pass, tabulated
IntervalTable == [s \in ReachableSchedules |-> IntervalFrom(s, PassNow)]

\* calculate_interval_hours
calculate_interval_hours(s) ==
    IF s \in DOMAIN IntervalTable THEN IntervalTable[s] ELSE IntervalFrom(s, PassNow)

\* current_interval_hours >= required_hours
Sufficient(current, required_hours) == current[1] >= required_hours * current[2]

\* Mutant: above 24 hours the daily run moves on by one hour at each call.
AdjustWith_shifting(s, required_hours, current) ==
    IF Len(s) # 5 THEN [ok |-> FALSE, v |-> s]
    ELSE IF Sufficient(current, required_hours) THEN [ok |-> TRUE, v |-> s]
    ELSE IF required_hours > 24
    THEN [ok |-> TRUE,
          v |-> <<Num(0), IF s[2].k = "num" THEN Num((s[2].n + 1) % 24) ELSE Num(0),
                  s[3], s[4], s[5]>>]
    ELSE [ok |-> TRUE, v |-> <<Num(0), Step(required_hours), s[3], s[4], s[5]>>]

\* Mutant: the rewritten expression runs on every day of the week.
AdjustWith_dropWeekday(s, required_hours, current) ==
    IF Len(s) # 5 THEN [ok |-> FALSE, v |-> s]
    ELSE IF Sufficient(current, required_hours) THEN [ok |-> TRUE, v |-> s]
    ELSE IF required_hours > 24
    THEN [ok |-> TRUE, v |-> <<Num(0), Num(0), s[3], s[4], Star>>]
    ELSE [ok |-> TRUE, v |-> <<Num(0), Step(required_hours), s[3], s[4], Star>>]

\* Mutant: an hour field that lists hours or gives a range is left alone.
AdjustWith_keepListedHours(s, required_hours, current) ==
    IF Len(s) # 5 THEN [ok |-> FALSE, v |-> s]
    ELSE IF Sufficient(current, required_hours) THEN [ok |-> TRUE, v |-> s]
    ELSE IF required_hours > 24
    THEN [ok |-> TRUE, v |-> <<Num(0), Num(0), s[3], s[4], s[5]>>]
    ELSE IF s[2].k = "*/" \/ s[2].k = "*"
    THEN [ok |-> TRUE, v |-> <<Num(0), Step(required_hours), s[3], s[4], s[5]>>]
    ELSE [ok |-> TRUE, v |-> s]

\* adjust_cron_interval from line 71 on, current being what
\* calculate_interval_hours gave at line 79; ok = FALSE stands for the
\* ValueError
AdjustWith(s, required_hours, current) ==
    IF Len(s) # 5 THEN [ok |-> FALSE, v |-> s]
    ELSE IF Sufficient(current, required_hours) THEN [ok |-> TRUE, v |-> s]
    ELSE IF required_hours > 24
    THEN [ok |-> TRUE, v |-> <<Num(0), Num(0), s[3], s[4], s[5]>>]
    ELSE IF s[2].k = "*/" \/ s[2].k = "*"
    THEN [ok |-> TRUE, v |-> <<Num(0), Step(required_hours), s[3], s[4], s[5]>>]
    ELSE IF s[2].k = "list" \/ s[2].k = "num"
    THEN [ok |-> TRUE, v |-> <<Num(0), Step(required_hours), s[3], s[4], s[5]>>]
    ELSE [ok |-> TRUE, v |-> <<Num(0), Step(required_hours), s[3], s[4], s[5]>>]

\* adjust_cron_interval called during the pass
adjust_cron_interval(s, required_hours) ==
    AdjustWith(s, required_hours, calculate_interval_hours(s))

FieldText(f) ==
    CASE f.k = "*" -> "*"
      [] f.k = "*/" -> "*/" \o ToString(f.n)
      [] OTHER -> ToString(f.n)

\* the cron expression as the string held in the sheet
ScheduleText(s) ==
    IF Len(s) = 5
    THEN FieldText(s[1]) \o " " \o FieldText(s[2]) \o " " \o FieldText(s[3]) \o " "
           \o FieldText(s[4]) \o " " \o FieldText(s[5])
    ELSE FieldText(s[1]) \o " " \o FieldText(s[2]) \o " " \o FieldText(s[3]) \o " "
           \o FieldText(s[4])

\* format_schedule_change_message
format_schedule_change_message(wait_seconds, old_schedule, new_schedule, required_hours, affected_count) ==
    <<"schedule changed from", ScheduleText(old_schedule), "to", ScheduleText(new_schedule),
      "because of slow mode, wait">> \o Humanize(wait_seconds)
      \o <<"applied to", ToString(affected_count), "settings of this chat">>

\* the informational message of handle_slow_mode_error when nothing was rewritten
OptimalMessage(wait_seconds, related_count) ==
    <<"slow mode detected but the schedules are already optimal, wait">>
      \o Humanize(wait_seconds) \o <<"check", ToString(related_count), "settings of this chat">>

RAutoAdjusted(required_hours, updated_count, chat) ==
    <<"Schedule", "auto-adjusted to every", ToString(required_hours), "hours for",
      ToString(updated_count), "settings in chat", chat>>

RNoAdjustment(related_count, chat) ==
    <<"No", "schedule adjustments needed - current intervals already sufficient for",
      ToString(related_count), "settings in chat", chat>>

RNoActive == <<"No", "active settings found for this chat">>

\* Mutant: the destination chat is not tested.
RelatedActive_anyChat(chat) ==
    SelectSeq([r \in Rules |-> r], LAMBDA r : active[r])

\* Mutant: the active flag is not tested.
RelatedActive_inactiveToo(chat) ==
    SelectSeq([r \in Rules |-> r], LAMBDA r : chat_id[r] = chat)

\* _related_active_settings, in the order of client.settings
RelatedActive(chat) ==
    SelectSeq([r \in Rules |-> r], LAMBDA r : chat_id[r] = chat /\ active[r])

RECURSIVE AdjustAll(_, _, _, _)
RECURSIVE AdjustStep(_, _, _, _, _)
\* one turn of the loop of step 3 for the setting related[i], adj being what
\* adjust_cron_interval gave for its schedule
AdjustStep(related, i, st, wait_seconds, adj) ==
    IF ~adj.ok THEN [st EXCEPT !.raised = TRUE]
    ELSE IF adj.v # st.sch[related[i]]
    THEN AdjustAll(related, i + 1,
            [st EXCEPT !.sch[related[i]] = adj.v,
                       !.err[related[i]] = format_schedule_change_message(
                                      ClampWait(wait_seconds), st.sch[related[i]], adj.v,
                                      RequiredHours(wait_seconds), Len(related)),
                       !.updated = @ + 1],
            wait_seconds)
    ELSE AdjustAll(related, i + 1, st, wait_seconds)

\* step 3 of handle_slow_mode_error: the loop over the related settings, from
\* index i on; st = [sch, err, updated, raised]
AdjustAll(related, i, st, wait_seconds) ==
    IF i > Len(related) THEN st
    ELSE AdjustStep(related, i, st, wait_seconds,
                    adjust_cron_interval(st.sch[related[i]], RequiredHours(wait_seconds)))

\* step 4 of handle_slow_mode_error, st being what the loop of step 3 left
HandlerFinish(r, wait_seconds, gsFails, related, st) ==
    IF st.raised
    THEN [sch |-> st.sch, err |-> st.err, text |-> NoText, raised |-> TRUE, wrote |-> FALSE]
    ELSE [sch |-> st.sch,
          err |-> IF st.updated > 0 THEN st.err
                  ELSE [s \in Rules |->
                           IF \E i \in DOMAIN related : related[i] = s
                           THEN OptimalMessage(ClampWait(wait_seconds), Len(related))
                           ELSE st.err[s]],
          text |-> IF st.updated > 0
                   THEN RAutoAdjusted(RequiredHours(wait_seconds), st.updated, chat_id[r])
                   ELSE RNoAdjustment(Len(related), chat_id[r]),
          raised |-> gsFails,
          wrote |-> ~gsFails]

\* steps 2 to 4 of handle_slow_mode_error for the related settings
HandlerFor(r, wait_seconds, gsFails, related) ==
    IF related = << >>
    THEN [sch |-> schedule, err |-> error, text |-> RNoActive, raised |-> FALSE, wrote |-> FALSE]
    ELSE HandlerFinish(r, wait_seconds, gsFails, related,
                       AdjustAll(related, 1,
                                 [sch |-> schedule, err |-> error, updated |-> 0, raised |-> FALSE],
                                 wait_seconds))

\* handle_slow_mode_error(client, setting, wait_seconds); gsFails: the
\* write-back to the sheet raises.  Returns the new schedule and error
\* columns, the result text, whether an exception left the handler and
\* whether the write-back was made.
handle_slow_mode_error(r, wait_seconds, gsFails) ==
    HandlerFor(r, wait_seconds, gsFails, RelatedActive(chat_id[r]))

\* what the platform answers to the send / forward call
ErrorKinds ==
    {"ChatWriteForbidden", "ChatSendMediaForbidden", "ChatAdminRequired",
     "InviteRequestSent", "UsernameNotOccupied", "ValueErrorSource", "ValueErrorGroup", "ValueErrorNoUser",
     "ValueErrorOther", "RPCPayment", "RPCPhotosForbidden", "RPCOther"}

SendKinds == {"ok_ids", "ok_no_ids", "SlowModeWait", "Unexpected"} \cup ErrorKinds

\* the except clauses of send_setting other than SlowModeWaitError
ErrorText(kind) ==
    CASE kind = "ChatWriteForbidden" -> <<"Error", ": no right to send messages">>
      [] kind = "ChatSendMediaForbidden" -> <<"Error", ": no right to send images">>
      [] kind = "ChatAdminRequired" -> <<"Error", ": this is a channel, not a group">>
      [] kind = "InviteRequestSent" -> <<"Error", ": the join request is still not accepted">>
      [] kind = "UsernameNotOccupied" -> <<"Error", ": the chat does not exist">>
      [] kind = "ValueErrorSource" -> <<"Error", ": could not get the source message">>
      [] kind = "ValueErrorGroup" -> <<"Error", ": the media group is incomplete or unavailable">>
      [] kind = "ValueErrorNoUser" -> <<"Error", ": the chat does not exist">>
      [] kind = "ValueErrorOther" -> <<"Error", ":", "<exception text>">>
      [] kind = "RPCPayment" -> <<"Error", ": payment required to publish in this chat, stars needed">>
      [] kind = "RPCPhotosForbidden" -> <<"Error", ": no right to send images to this chat">>
      [] kind = "RPCOther" -> <<"Error", "sending message:", "<exception text>">>

\* the fallback of the SlowModeWaitError clause
RSlowFallback(w) ==
    <<"Error", ": sent too early, wait">>
      \o (IF w.known THEN Humanize(w.seconds) ELSE <<"<exception text>">>)
      \o <<"put a longer pause into the schedule">>

\* what get_last_successful_entry gives the task: an exception, None, or the
\* instant of the last successful row (10 and 1000 minutes before the pass)
PriorInputs ==
    {[kind |-> "raises", at |-> 0], [kind |-> "none", at |-> 0],
     [kind |-> "some", at |-> PassNow - 10], [kind |-> "some", at |-> PassNow - 1000]}

\* how acc._join_chat(chat_id) ends inside the try block of send_setting
JoinInputs == {"ok", "RPCError", "ValueErrorNoUser", "Unexpected"}

\* how _generate_message_link ends
LinkInputs == {"link", "empty", "raises"}

\* Setting.should_be_run
should_be_run(r, last_run) == active[r] /\ check_cron_tz(schedule[r], last_run, PassNow)

\* no SlowModeWaitError was raised to the rule
NoWait == [hit |-> FALSE, known |-> FALSE, seconds |-> 0]

DispatchInit ==
    /\ active \in [Rules -> BOOLEAN]
    /\ schedule \in [Rules -> Schedules]
    /\ chat_id \in [Rules -> Chats]
    /\ chat_id[1] = "@chatA"
    /\ error = [r \in Rules |-> IF active[r] THEN NoText ELSE ErrorText("ChatWriteForbidden")]
    /\ link = [r \in Rules |-> ""]
    /\ rpc = [r \in Rules |-> "new"]
    /\ prior = [r \in Rules |-> "unknown"]
    /\ lastSuccess = [r \in Rules |-> 0]
    /\ attempt = [r \in Rules |-> NoText]
    /\ result = [r \in Rules |-> NoText]
    /\ was_processed = [r \in Rules |-> FALSE]
    /\ was_successful = [r \in Rules |-> FALSE]
    /\ issued = [r \in Rules |-> "none"]
    /\ logRows = {}
    /\ logFailed = [r \in Rules |-> FALSE]
    /\ errors = {}
    /\ writeBacks = << >>
    /\ gathered = FALSE
    /\ processed_count = 0
    /\ successful_count = 0
    /\ slowWait = [r \in Rules |-> NoWait]

\* Mutant: the first sibling that ends with an error cancels the other tasks.
TaskRunnable_abortOnError(r, at) == rpc[r] = at /\ errors = {}

\* asyncio.gather(..., return_exceptions=True): the task of rule r, standing at
\* the position "at", is resumed whatever happened to the sibling tasks
TaskRunnable(r, at) == rpc[r] = at

\* The tail of process_setting_outer from "# add log entry" on, for the task of
\* rule r that reached it with the text res, the flags wp (was_processed) and
\* ws (was_successful), message ids present or not (hasIds), the error column
\* errBase, and the log insert failing or not (logFails).
Complete(r, res, wp, ws, hasIds, errBase, logFails) ==
    LET insertRaises == Persisted(res) /\ logFails
        final == IF insertRaises THEN RLoggingError ELSE res
    IN
    /\ logRows' = IF Persisted(res) /\ ~logFails THEN logRows \cup {<<r, res>>} ELSE logRows
    /\ logFailed' = [logFailed EXCEPT ![r] = insertRaises]
    /\ attempt' = [attempt EXCEPT ![r] = res]
    /\ result' = [result EXCEPT ![r] = final]
    /\ was_processed' = [was_processed EXCEPT ![r] = wp]
    /\ IF HasError(final)
       THEN /\ errors' = errors \cup {r}
            /\ error' = [errBase EXCEPT ![r] = final]
            /\ active' = [active EXCEPT ![r] = FALSE]
            /\ was_successful' = [was_successful EXCEPT ![r] = IF wp THEN FALSE ELSE ws]
            /\ rpc' = [rpc EXCEPT ![r] = "done"]
            /\ UNCHANGED link
       ELSE IF HasSuccessfully(final)
       THEN /\ error' = [errBase EXCEPT ![r] = ROkStamp]
            /\ link' = [link EXCEPT ![r] = ""]
            /\ IF hasIds
               THEN /\ rpc' = [rpc EXCEPT ![r] = "linking"]
                    /\ was_successful' = [was_successful EXCEPT ![r] = ws]
               ELSE /\ rpc' = [rpc EXCEPT ![r] = "done"]
                    /\ was_successful' = [was_successful EXCEPT ![r] = TRUE]
            /\ UNCHANGED <<errors, active>>
       ELSE /\ error' = errBase
            /\ was_successful' = [was_successful EXCEPT ![r] = ws]
            /\ rpc' = [rpc EXCEPT ![r] = "done"]
            /\ UNCHANGED <<errors, active, link>>

\* Mutant: the cron expression is consulted before the prior success is.
ScheduleCheck_cronFirst(r, successful) ==
    IF ~CronValid(schedule[r])
    THEN [res |-> RCronError, wp |-> FALSE, ws |-> FALSE]
    ELSE IF successful.kind = "none"
    THEN [res |-> RNever, wp |-> TRUE, ws |-> TRUE]
    ELSE IF should_be_run(r, successful.at)
    THEN [res |-> NoText, wp |-> TRUE, ws |-> FALSE]
    ELSE [res |-> RAlready, wp |-> FALSE, ws |-> FALSE]

\* process_setting_outer, the schedule check of an active rule: the text,
\* was_processed and was_successful it leaves; no text when the rule is due
ScheduleCheck(r, successful) ==
    IF successful.kind = "none"
    THEN [res |-> RNever, wp |-> TRUE, ws |-> TRUE]
    ELSE IF ~CronValid(schedule[r])
    THEN [res |-> RCronError, wp |-> FALSE, ws |-> FALSE]
    ELSE IF should_be_run(r, successful.at)
    THEN [res |-> NoText, wp |-> TRUE, ws |-> FALSE]
    ELSE [res |-> RAlready, wp |-> FALSE, ws |-> FALSE]

\* Mutant: a rule that was never sent before goes on to send_setting.
NeedsSend_neverSent(res) == res = NoText \/ res = RNever

\* "if not result": send_setting is called
NeedsSend(res) == res = NoText

\* process_setting_outer after the schedule check chk: send_setting is entered
\* and awaits the join, or the text goes to the log
AfterCheck(r, chk, logFails) ==
    IF NeedsSend(chk.res)
    THEN /\ was_processed' = [was_processed EXCEPT ![r] = chk.wp]
         /\ was_successful' = [was_successful EXCEPT ![r] = chk.ws]
         /\ rpc' = [rpc EXCEPT ![r] = "joining"]
         /\ UNCHANGED <<active, error, link, attempt, result, logRows, logFailed, errors>>
    ELSE Complete(r, chk.res, chk.wp, chk.ws, FALSE, error, logFails)

\* process_setting_outer from its start to its first await (the join inside
\* send_setting) or, when nothing is sent, to its return
RuleStart(r) ==
    /\ TaskRunnable(r, "new")
    /\ \E logFails \in BOOLEAN :
        IF ~active[r]
        THEN /\ Complete(r, RSkipped, FALSE, FALSE, FALSE, error, logFails)
             /\ UNCHANGED <<prior, lastSuccess>>
        ELSE \E successful \in PriorInputs :
            /\ prior' = [prior EXCEPT ![r] = successful.kind]
            /\ lastSuccess' = [lastSuccess EXCEPT ![r] = successful.at]
            /\ IF successful.kind = "raises"
               THEN Complete(r, RTraceback, FALSE, FALSE, FALSE, error, logFails)
               ELSE AfterCheck(r, ScheduleCheck(r, successful), logFails)
    /\ UNCHANGED <<poolVars, acctVars, labVars, passVars, fwdVars, normVars, schedule, chat_id, issued, writeBacks, gathered,
                   processed_count, successful_count, slowWait>>

\* send_setting: the join returns; the forward or the send is issued unless
\* the join left the try block with an exception
JoinReturns(r) ==
    /\ TaskRunnable(r, "joining")
    /\ \E j \in JoinInputs, logFails \in BOOLEAN, op \in {"send", "forward"} :
        IF j \in {"ok", "RPCError"}
        THEN /\ issued' = [issued EXCEPT ![r] = op]
             /\ rpc' = [rpc EXCEPT ![r] = "sending"]
             /\ UNCHANGED <<active, error, link, attempt, result, was_processed,
                            was_successful, logRows, logFailed, errors>>
        ELSE /\ Complete(r, IF j = "ValueErrorNoUser" THEN ErrorText(j) ELSE RTraceback,
                         was_processed[r], was_successful[r], FALSE, error, logFails)
             /\ UNCHANGED issued
    /\ UNCHANGED <<poolVars, acctVars, labVars, passVars, fwdVars, normVars, schedule, chat_id, prior, lastSuccess, writeBacks, gathered,
                   processed_count, successful_count, slowWait>>

\* Mutant: the active column is written back too.
WriteBackFields_withActive == {"active", "schedule", "error", "link"}

\* the fields handle_slow_mode_error hands to update_settings_in_gsheets
WriteBackFields == {"schedule", "error", "link"}

\* the SlowModeWaitError clause after handle_slow_mode_error gave h: the
\* handler's changes stay, its text or the traceback of its exception is the
\* result
SlowModeHandled(r, h, logFails) ==
    /\ schedule' = h.sch
    /\ writeBacks' = IF h.wrote
                     THEN Append(writeBacks, WriteBackFields)
                     ELSE writeBacks
    /\ Complete(r, IF h.raised THEN RTraceback ELSE h.text,
                was_processed[r], was_successful[r], FALSE, h.err, logFails)

\* send_setting: the forward or the send returns or raises; the outcome is
\* classified, logged and applied to the rule
SendReturns(r) ==
    /\ TaskRunnable(r, "sending")
    /\ \E kind \in SendKinds, logFails \in BOOLEAN :
        /\ kind \in {"ValueErrorSource", "ValueErrorGroup"} => issued[r] = "forward"
        /\ IF kind = "SlowModeWait"
           THEN \E w \in WaitInputs, gsFails \in BOOLEAN :
                /\ slowWait' = [slowWait EXCEPT ![r] = [hit |-> TRUE, known |-> w.known,
                                                        seconds |-> w.seconds]]
                /\ IF ~w.known
                   THEN /\ Complete(r, RSlowFallback(w), was_processed[r], was_successful[r], FALSE, error, logFails)
                        /\ UNCHANGED <<schedule, writeBacks>>
                   ELSE SlowModeHandled(r, handle_slow_mode_error(r, w.seconds, gsFails), logFails)
           ELSE /\ UNCHANGED slowWait
                /\ Complete(r,
                      CASE kind = "ok_ids" \/ kind = "ok_no_ids" ->
                               (IF issued[r] = "forward" THEN RForwarded ELSE RSent)
                        [] kind = "Unexpected" -> RTraceback
                        [] OTHER -> ErrorText(kind),
                      was_processed[r], was_successful[r], kind = "ok_ids", error, logFails)
                /\ UNCHANGED <<schedule, writeBacks>>
    /\ UNCHANGED <<poolVars, acctVars, labVars, passVars, fwdVars, normVars, chat_id, prior, lastSuccess, issued, gathered,
                   processed_count, successful_count>>

\* the permalink generation returns; its failure is swallowed
LinkReturns(r) ==
    /\ TaskRunnable(r, "linking")
    /\ \E l \in LinkInputs :
        link' = [link EXCEPT ![r] = IF l = "link" THEN "https://t.me/<chat>/<id>" ELSE @]
    /\ was_successful' = [was_successful EXCEPT ![r] = TRUE]
    /\ rpc' = [rpc EXCEPT ![r] = "done"]
    /\ UNCHANGED <<poolVars, acctVars, labVars, passVars, fwdVars, normVars, active, schedule, chat_id, error, prior, lastSuccess, attempt, result,
                   was_processed, issued, logRows, logFailed, errors, writeBacks, gathered,
                   processed_count, successful_count, slowWait>>

\* Mutant: every gathered result is counted as processed.
ProcessedResults_all == Rules

\* the results with was_processed set
ProcessedResults == {r \in Rules : was_processed[r]}

\* among them, the results with was_successful set
SuccessfulResults == {r \in ProcessedResults : was_successful[r]}

\* process_client_settings: the gather returns and the results are counted
GatherResults ==
    /\ ~gathered
    /\ \A r \in Rules : rpc[r] = "done"
    /\ gathered' = TRUE
    /\ processed_count' = Cardinality(ProcessedResults)
    /\ successful_count' = Cardinality(SuccessfulResults)
    /\ UNCHANGED <<poolVars, acctVars, labVars, passVars, fwdVars, normVars, active, schedule, chat_id, error, link, rpc, prior, lastSuccess, attempt,
                   result, was_processed, was_successful, issued, logRows, logFailed, errors,
                   writeBacks, slowWait>>

DispatchNext ==
    \/ \E r \in Rules : RuleStart(r)
    \/ \E r \in Rules : JoinReturns(r)
    \/ \E r \in Rules : SendReturns(r)
    \/ \E r \in Rules : LinkReturns(r)
    \/ GatherResults

\* the steps of the task of rule r
RuleNext(r) == RuleStart(r) \/ JoinReturns(r) \/ SendReturns(r) \/ LinkReturns(r)

\* the pool is not part of this specification
PoolIdle ==
    /\ invalid = [p \in Passes |-> "raise"]
    /\ lockMarker = {}
    /\ sessionFile = {}
    /\ pc = [p \in Passes |-> "idle"]
    /\ startTask = [p \in Passes |-> [a \in Accounts |-> "none"]]
    /\ started = [p \in Passes |-> [a \in Accounts |-> FALSE]]
    /\ stopTask = [p \in Passes |-> [a \in Accounts |-> "none"]]
    /\ bodyEntered = [p \in Passes |-> FALSE]
    /\ propagated = [p \in Passes |-> "none"]

InitDispatch == PoolIdle /\ AccountIdle /\ LabIdle /\ PassIdle /\ ForwardIdle /\ SettingIdle /\ DispatchInit

SpecDispatch == InitDispatch /\ [][DispatchNext]_vars

\* The event loop resumes every task that can go on, every awaited platform
\* call returns or raises, and the gather returns once its tasks are done.
SpecDispatchLive ==
    /\ SpecDispatch
    /\ \A r \in Rules : WF_vars(RuleNext(r))
    /\ WF_vars(GatherResults)


(***************************************************************************)
(* Part III: the life of one Account                                       *)
(***************************************************************************)

\* the start() and stop() calls followed on one Account object
MaxCalls == 4

\* a Python bool, as start_sessions passes it
PyBool(b) == [t |-> "bool", b |-> b, s |-> ""]

\* a Python str, as Account.session passes it
PyStr(s) == [t |-> "str", b |-> FALSE, s |-> s]

Truthy_boolOnly(v) == v.t = "bool" /\ v.b

\* the truth value Python gives to "if revalidate" / "elif revalidate"
Truthy(v) == IF v.t = "bool" THEN v.b ELSE v.s # ""

\* the revalidate argument each caller hands to start()
StartArgument(via, mode) ==
    IF via = "pool" THEN PyBool(mode = "revalidate") ELSE PyStr(mode)

StopSteps_teardownFirst == <<"tearing", "exporting">>

\* the awaits of stop(), in their order: save_session_string(), app.stop()
StopSteps == <<"exporting", "tearing">>

NextStopStep(step) == IF step = StopSteps[1] THEN StopSteps[2] ELSE "end"

\* Account.__init__, with or without a session persisted by an earlier run
AccountInit ==
    /\ app = "none"
    /\ appSession = 0
    /\ accStarted = FALSE
    /\ accFile \in {0, 1}
    /\ accPc = "idle"
    /\ accOp = "none"
    /\ revalidate = PyBool(FALSE)
    /\ accPolicy = "ignore"
    /\ accVia = "pool"
    /\ hadFile = FALSE
    /\ codeAsked = FALSE
    /\ appStarts = 0
    /\ appStartResult = "none"
    /\ accRaised = "none"
    /\ nextSession = 2
    /\ calls = 0

\* start() up to its first await.  Its callers start an account that is not
\* started: start_sessions once per pool session, Account.session on entry.
StartInvoke(via, mode) ==
    /\ accPc = "idle"
    /\ ~accStarted
    /\ calls < MaxCalls
    /\ calls' = calls + 1
    /\ accOp' = "start"
    /\ accVia' = via
    /\ accPolicy' = mode
    /\ revalidate' = StartArgument(via, mode)
    /\ hadFile' = (accFile # 0)
    /\ codeAsked' = FALSE
    /\ appStarts' = 0
    /\ appStartResult' = "none"
    /\ IF accFile # 0
         THEN /\ app' = "client"
              /\ appSession' = accFile
              /\ accPc' = "starting"
              /\ accRaised' = "none"
         ELSE IF Truthy(StartArgument(via, mode))
         THEN /\ app' = "client"
              /\ appSession' = 0
              /\ accPc' = "connecting"
              /\ accRaised' = "none"
         ELSE /\ accPc' = "idle"
              /\ accRaised' = "NoSession"
              /\ UNCHANGED <<app, appSession>>
    /\ UNCHANGED <<accStarted, accFile, nextSession, poolVars, ruleVars, labVars, passVars, fwdVars, normVars>>

\* setup_new_session: app.connect() returns or raises; send_code is called next
ConnectReturns(ok) ==
    /\ accPc = "connecting"
    /\ IF ok
         THEN /\ accPc' = "sending_code"
              /\ codeAsked' = TRUE
              /\ UNCHANGED accRaised
         ELSE /\ accPc' = "idle"
              /\ accRaised' = "setup"
              /\ UNCHANGED codeAsked
    /\ UNCHANGED <<app, appSession, accStarted, accFile, accOp, revalidate,
                   accPolicy, accVia, hadFile, appStarts, appStartResult,
                   nextSession, calls, poolVars, ruleVars, labVars, passVars, fwdVars, normVars>>

\* setup_new_session: send_code returns or raises; sign_in is called next
SendCodeReturns(ok) ==
    /\ accPc = "sending_code"
    /\ IF ok
         THEN /\ accPc' = "signing_in"
              /\ UNCHANGED accRaised
         ELSE /\ accPc' = "idle"
              /\ accRaised' = "setup"
    /\ UNCHANGED <<app, appSession, accStarted, accFile, accOp, revalidate,
                   accPolicy, accVia, hadFile, codeAsked, appStarts,
                   appStartResult, nextSession, calls, poolVars, ruleVars, labVars, passVars, fwdVars, normVars>>

\* setup_new_session: sign_in returns or raises; app.start() is called next
SignInReturns(ok) ==
    /\ accPc = "signing_in"
    /\ IF ok
         THEN /\ accPc' = "starting"
              /\ appSession' = nextSession
              /\ nextSession' = nextSession + 1
              /\ UNCHANGED accRaised
         ELSE /\ accPc' = "idle"
              /\ accRaised' = "setup"
              /\ UNCHANGED <<appSession, nextSession>>
    /\ UNCHANGED <<app, accStarted, accFile, accOp, revalidate, accPolicy,
                   accVia, hadFile, codeAsked, appStarts, appStartResult,
                   calls, poolVars, ruleVars, labVars, passVars, fwdVars, normVars>>

\* app.start() returns, raises AuthKeyUnregistered / UserDeactivated ("auth")
\* or raises something else.  The call of line 56 is guarded by the except
\* clause, the call of line 61 is not.
AppStartReturns(outcome) ==
    /\ accPc = "starting"
    /\ appStarts' = appStarts + 1
    /\ appStartResult' = outcome
    /\ IF outcome = "ok"
         THEN /\ accStarted' = TRUE
              /\ accPc' = "idle"
              /\ UNCHANGED <<app, appSession, accRaised>>
         ELSE IF outcome = "auth" /\ appStarts = 0 /\ Truthy(revalidate)
         THEN /\ app' = "client"
              /\ appSession' = 0
              /\ accPc' = "connecting"
              /\ UNCHANGED <<accStarted, accRaised>>
         ELSE /\ accPc' = "idle"
              /\ accRaised' = outcome
              /\ UNCHANGED <<app, appSession, accStarted>>
    /\ UNCHANGED <<accFile, accOp, revalidate, accPolicy, accVia, hadFile,
                   codeAsked, nextSession, calls, poolVars, ruleVars, labVars, passVars, fwdVars, normVars>>

\* the end of one await of stop(): the next await, or "self.started = False"
StopAdvance(step) ==
    IF NextStopStep(step) = "end"
      THEN accStarted' = FALSE /\ accPc' = "idle"
      ELSE accPc' = NextStopStep(step) /\ UNCHANGED accStarted

\* stop() up to its first await
StopInvoke ==
    /\ accPc = "idle"
    /\ calls < MaxCalls
    /\ calls' = calls + 1
    /\ accOp' = "stop"
    /\ accRaised' = "none"
    /\ accPc' = IF accStarted THEN StopSteps[1] ELSE "idle"
    /\ UNCHANGED <<app, appSession, accStarted, accFile, revalidate, accPolicy,
                   accVia, hadFile, codeAsked, appStarts, appStartResult,
                   nextSession, poolVars, ruleVars, labVars, passVars, fwdVars, normVars>>

\* save_session_string(): the export returned and the file was written, or
\* one of the two raised
SaveSessionReturns(ok) ==
    /\ accPc = "exporting"
    /\ IF ok
         THEN /\ accFile' = appSession
              /\ StopAdvance("exporting")
              /\ UNCHANGED accRaised
         ELSE /\ accPc' = "idle"
              /\ accRaised' = "save"
              /\ UNCHANGED <<accFile, accStarted>>
    /\ UNCHANGED <<app, appSession, accOp, revalidate, accPolicy, accVia,
                   hadFile, codeAsked, appStarts, appStartResult, nextSession,
                   calls, poolVars, ruleVars, labVars, passVars, fwdVars, normVars>>

\* app.stop() returns, or raises or is cancelled
AppStopReturns(ok) ==
    /\ accPc = "tearing"
    /\ IF ok
         THEN /\ StopAdvance("tearing")
              /\ UNCHANGED accRaised
         ELSE /\ accPc' = "idle"
              /\ accRaised' = "teardown"
              /\ UNCHANGED accStarted
    /\ UNCHANGED <<app, appSession, accFile, accOp, revalidate, accPolicy,
                   accVia, hadFile, codeAsked, appStarts, appStartResult,
                   nextSession, calls, poolVars, ruleVars, labVars, passVars, fwdVars, normVars>>

AccountNext ==
    \/ \E via \in {"pool", "scope"}, mode \in Modes : StartInvoke(via, mode)
    \/ \E ok \in BOOLEAN : ConnectReturns(ok)
    \/ \E ok \in BOOLEAN : SendCodeReturns(ok)
    \/ \E ok \in BOOLEAN : SignInReturns(ok)
    \/ \E outcome \in {"ok", "auth", "other"} : AppStartReturns(outcome)
    \/ StopInvoke
    \/ \E ok \in BOOLEAN : SaveSessionReturns(ok)
    \/ \E ok \in BOOLEAN : AppStopReturns(ok)

InitAccount == PoolIdle /\ RulesIdle /\ LabIdle /\ PassIdle /\ ForwardIdle /\ SettingIdle /\ AccountInit

SpecAccount == InitAccount /\ [][AccountNext]_vars


(***************************************************************************)
(* Part IV: the scheduling functions, applied to drawn arguments           *)
(***************************************************************************)

\* the wait_seconds handed to handle_slow_mode_error
WaitSamples == {-100, 0, 1, 1800, 2999, 3000, 3001, 3600, 5400, 6000, 90000}

\* the required_hours handed to adjust_cron_interval
HourSamples == {1, 2, 3, 10, 25, 200}

M30at9 == <<Step(30), Num(9), Star, Star, Num(1)>>            \* "*/30 9 * * 1"

\* the cron expressions handed to the functions
CronSamples ==
    {S30, S9, BAD4, M30at9,
     <<Num(0), Step(2), Star, Star, Star>>,                   \* "0 */2 * * *"
     <<Num(0), List({9, 14, 18}), Star, Star, Star>>,         \* "0 9,14,18 * * *"
     <<Num(0), Range(9, 17), Star, Star, Star>>,              \* "0 9-17 * * *"
     <<Num(30), Num(14), Num(1), Star, Range(1, 5)>>,         \* "30 14 1 * 1-5"
     <<Num(0), Num(9), Star, Num(1), Star>>,                  \* "0 9 * 1 *"
     <<Num(0), Num(14), Star, Star, Star>>,                   \* "0 14 * * *"
     <<Num(0), Num(12), Star, Star, Num(1)>>,                 \* "0 12 * * 1"
     <<Num(0), Num(0), Star, Star, Star>>}                    \* "0 0 * * *"

\* the readings of datetime.now(): Monday 09:20, 09:29 and 09:30
ClockSamples == {PassNow, 33 * 60 + 29, 33 * 60 + 30}

\* the instants handed as last_run and now: Sunday 12:00, Monday 05:30,
\* 06:00, 08:30, 09:00, 09:30, 10:30, 11:30, 12:00, 12:01, Tuesday 09:00
TimeSamples ==
    {720, 1440 + 330, 1440 + 360, 1440 + 510, 1440 + 540, 1440 + 570, 1440 + 630,
     1440 + 690, 1440 + 720, 1440 + 721, 2880 + 540}

\* the expressions calculate_interval_hours can be given here
LabSchedules ==
    CronSamples \cup {Rewritten(s, h) : s \in {x \in CronSamples : Len(x) = 5}, h \in HourSamples}

\* calculate_interval_hours at each reading of the clock, tabulated
IntervalAtTable == [p \in LabSchedules \X ClockSamples |-> IntervalFrom(p[1], p[2])]

\* calculate_interval_hours when datetime.now() reads clock
IntervalAt(s, clock) ==
    IF <<s, clock>> \in DOMAIN IntervalAtTable
    THEN IntervalAtTable[<<s, clock>>]
    ELSE IntervalFrom(s, clock)

NoArgs ==
    [f |-> "none", w |-> 0, s |-> << >>, h |-> 0, clock |-> 0, clock2 |-> 0,
     last |-> 0, n |-> 0]

\* the calls made: the function named f with its arguments
LabArgs ==
    {[NoArgs EXCEPT !.f = "required_hours", !.w = w] : w \in WaitSamples}
    \cup {[NoArgs EXCEPT !.f = "adjust", !.s = x[1], !.h = x[2], !.clock = x[3]] :
            x \in CronSamples \X HourSamples \X ClockSamples}
    \cup {[NoArgs EXCEPT !.f = x[1], !.s = x[2], !.last = x[3], !.n = x[4]] :
            x \in {y \in {"check_cron", "check_cron_tz"} \X CronSamples \X TimeSamples \X TimeSamples :
                      y[3] <= y[4]}}

NoResult ==
    [hours |-> 0, adj |-> [ok |-> FALSE, v |-> << >>],
     adj2 |-> [ok |-> FALSE, v |-> << >>], due |-> "none"]

LabInit ==
    /\ fn = "none"
    /\ fnArgs \in LabArgs
    /\ fnResult = NoResult

\* step 1 of handle_slow_mode_error
ApplyRequiredHours ==
    /\ fn = "none" /\ fnArgs.f = "required_hours"
    /\ fn' = "required_hours"
    /\ fnResult' = [NoResult EXCEPT !.hours = RequiredHours(fnArgs.w)]
    /\ UNCHANGED <<fnArgs, poolVars, ruleVars, acctVars, passVars, fwdVars, normVars>>

\* adjust_cron_interval(s, h), datetime.now() reading clock
ApplyAdjust ==
    /\ fn = "none" /\ fnArgs.f = "adjust"
    /\ fn' = "adjust"
    /\ fnResult' = [NoResult EXCEPT
                      !.adj = AdjustWith(fnArgs.s, fnArgs.h, IntervalAt(fnArgs.s, fnArgs.clock))]
    /\ UNCHANGED <<fnArgs, poolVars, ruleVars, acctVars, passVars, fwdVars, normVars>>

\* adjust_cron_interval applied to what it returned, with the same
\* required_hours, datetime.now() reading clock2, not earlier than before
ApplyAdjustAgain(clock2) ==
    /\ fn = "adjust"
    /\ fnResult.adj.ok
    /\ clock2 >= fnArgs.clock
    /\ fn' = "adjust_again"
    /\ fnArgs' = [fnArgs EXCEPT !.clock2 = clock2]
    /\ fnResult' = [fnResult EXCEPT
                      !.adj2 = AdjustWith(fnResult.adj.v, fnArgs.h,
                                          IntervalAt(fnResult.adj.v, clock2))]
    /\ UNCHANGED <<poolVars, ruleVars, acctVars, passVars, fwdVars, normVars>>

\* what a call of check_cron or check_cron_tz gives: croniter raises on an
\* expression it does not accept
DueText(s, due) == IF ~CronValid(s) THEN "raises" ELSE IF due THEN "due" ELSE "not due"

\* check_cron(s, last, n) on naive instants
ApplyCheckCron ==
    /\ fn = "none" /\ fnArgs.f = "check_cron"
    /\ fn' = "check_cron"
    /\ fnResult' = [NoResult EXCEPT
                      !.due = DueText(fnArgs.s,
                                      CronValid(fnArgs.s)
                                      /\ check_cron(fnArgs.s, fnArgs.last, fnArgs.n))]
    /\ UNCHANGED <<fnArgs, poolVars, ruleVars, acctVars, passVars, fwdVars, normVars>>

\* check_cron_tz(s, ZoneInfo("Europe/Moscow"), last, n) on UTC instants
ApplyCheckCronTz ==
    /\ fn = "none" /\ fnArgs.f = "check_cron_tz"
    /\ fn' = "check_cron_tz"
    /\ fnResult' = [NoResult EXCEPT
                      !.due = DueText(fnArgs.s,
                                      CronValid(fnArgs.s)
                                      /\ check_cron_tz(fnArgs.s, fnArgs.last, fnArgs.n))]
    /\ UNCHANGED <<fnArgs, poolVars, ruleVars, acctVars, passVars, fwdVars, normVars>>

LabNext ==
    \/ ApplyRequiredHours
    \/ ApplyAdjust
    \/ \E clock2 \in ClockSamples : ApplyAdjustAgain(clock2)
    \/ ApplyCheckCron
    \/ ApplyCheckCronTz

InitLab == PoolIdle /\ RulesIdle /\ AccountIdle /\ PassIdle /\ ForwardIdle /\ SettingIdle /\ LabInit

SpecLab == InitLab /\ [][LabNext]_vars

(***************************************************************************)
(* Part V: one pass over a client group                                    *)
(*                                                                         *)
(* process_client of src/cli.py with publish_stats of                      *)
(* monitoring/stats_publisher.py.  The rules of the group are taken one    *)
(* level up from Part II: a rule's task is one step that ends with one of  *)
(* the outcomes process_setting_outer has for the pass.  The sheet rows    *)
(* are drawn in the initial state.                                         *)
(***************************************************************************)

\* the key under which a pass-level error is kept in the errors dict
CriticalKey == << >>

\* Setting.get_hash
get_hash(r) == <<r>>

\* how one task of the gather can end for the pass: a "...successfully" result,
\* "Message already sent recently", a result with "error" in it for a rule
\* that was due or was not, and an exception leaving process_setting_outer
TaskOutcomes == {"sent", "recent", "error_due", "error_not_due", "raised"}

\* what entering accounts.session() can do
SessionOutcomes == {"ok", "AccountStartFailed", "RuntimeError"}

\* Mutant: a return inside the try block leaves without the finally block.
ExitsThroughFinally_exceptReturn == {"normal", "AccountStartFailed", "Exception"}

\* the ways out of the try block that run its finally block
ExitsThroughFinally == {"return", "normal", "AccountStartFailed", "Exception"}

\* process_client: the exception raised for a way out of the try block
RaisedFor(exit) ==
    IF exit = "AccountStartFailed" THEN "AccountInitializationError"
    ELSE IF exit = "Exception" THEN "ProcessingError"
    ELSE "none"

\* process_client: the try block is left
LeaveTry(exit) ==
    /\ passExit' = exit
    /\ passPc' = IF exit \in ExitsThroughFinally THEN "finally" ELSE "done"
    /\ passRaised' = IF exit \in ExitsThroughFinally THEN "none" ELSE RaisedFor(exit)

\* publish_stats: the text of the alert
AlertText(errs, processed, successful, act, err) ==
    IF CriticalKey \in errs
    THEN [kind |-> "critical", due |-> 0, ok |-> 0, offWithErrors |-> 0, offNoErrors |-> 0,
          on |-> 0, total |-> 0]
    ELSE [kind |-> "stats",
          due |-> processed,
          ok |-> IF processed > 0 THEN successful ELSE 0,
          offWithErrors |-> Cardinality({r \in Rules : ~act[r] /\ err[r]}),
          offNoErrors |-> Cardinality({r \in Rules : ~act[r] /\ ~err[r]}),
          on |-> Cardinality({r \in Rules : act[r]}),
          total |-> Cardinality(Rules)]

PassInit ==
    /\ passPc = "start"
    /\ rowActive \in [Rules -> BOOLEAN]
    /\ setActive = rowActive
    /\ setError \in [Rules -> BOOLEAN]
    /\ taskResult = [r \in Rules |-> "none"]
    /\ passErrors = {}
    /\ passProcessed = 0
    /\ passSuccessful = 0
    /\ sessionOutcome = "none"
    /\ passExit = "none"
    /\ passRaised = "none"
    /\ publishCalls = 0
    /\ sinkOutcome = "none"
    /\ alerts = << >>
    /\ passWriteBack = {}

\* process_client: load_settings returned, and the pass returns when no rule is active
LoadSettings ==
    /\ passPc = "start"
    /\ IF \A r \in Rules : ~setActive[r]
       THEN LeaveTry("return")
       ELSE /\ passPc' = "set_up"
            /\ UNCHANGED <<passExit, passRaised>>
    /\ UNCHANGED <<rowActive, setActive, setError, taskResult, passErrors, passProcessed,
                   passSuccessful, sessionOutcome, publishCalls, sinkOutcome, alerts,
                   passWriteBack, poolVars, ruleVars, acctVars, labVars, fwdVars, normVars>>

\* process_client: set_up_accounts, then load_results_for_client returns or raises
LoadResults(ok) ==
    /\ passPc = "set_up"
    /\ IF ok
       THEN /\ passPc' = "session"
            /\ UNCHANGED <<passExit, passRaised>>
       ELSE LeaveTry("Exception")
    /\ UNCHANGED <<rowActive, setActive, setError, taskResult, passErrors, passProcessed,
                   passSuccessful, sessionOutcome, publishCalls, sinkOutcome, alerts,
                   passWriteBack, poolVars, ruleVars, acctVars, labVars, fwdVars, normVars>>

\* process_client_settings: "async with accounts.session()" is entered
PassSessionEnter(outcome) ==
    /\ passPc = "session"
    /\ sessionOutcome' = outcome
    /\ IF outcome = "ok"
       THEN /\ passPc' = "body"
            /\ UNCHANGED <<passExit, passRaised>>
       ELSE LeaveTry(IF outcome = "AccountStartFailed" THEN "AccountStartFailed" ELSE "Exception")
    /\ UNCHANGED <<rowActive, setActive, setError, taskResult, passErrors, passProcessed,
                   passSuccessful, publishCalls, sinkOutcome, alerts,
                   passWriteBack, poolVars, ruleVars, acctVars, labVars, fwdVars, normVars>>

\* process_setting_outer for one active rule of the gather
TaskEnds(r, outcome) ==
    /\ passPc = "body"
    /\ rowActive[r]
    /\ taskResult[r] = "none"
    /\ taskResult' = [taskResult EXCEPT ![r] = outcome]
    /\ IF outcome \in {"error_due", "error_not_due"}
       THEN /\ passErrors' = passErrors \cup {get_hash(r)}
            /\ setActive' = [setActive EXCEPT ![r] = FALSE]
            /\ setError' = [setError EXCEPT ![r] = TRUE]
       ELSE /\ setError' = IF outcome = "sent" THEN [setError EXCEPT ![r] = TRUE] ELSE setError
            /\ UNCHANGED <<passErrors, setActive>>
    /\ UNCHANGED <<passPc, rowActive, passProcessed, passSuccessful, sessionOutcome, passExit,
                   passRaised, publishCalls, sinkOutcome, alerts, passWriteBack,
                   poolVars, ruleVars, acctVars, labVars, fwdVars, normVars>>

\* process_client_settings: the results of the gather are taken and the try block ends
ResultsTaken ==
    /\ passPc = "body"
    /\ \A r \in Rules : rowActive[r] => taskResult[r] # "none"
    /\ passErrors' = IF \E r \in Rules : taskResult[r] = "raised"
                     THEN passErrors \cup {CriticalKey}
                     ELSE passErrors
    /\ passProcessed' = Cardinality({r \in Rules : taskResult[r] \in {"sent", "error_due"}})
    /\ passSuccessful' = Cardinality({r \in Rules : taskResult[r] = "sent"})
    /\ LeaveTry("normal")
    /\ UNCHANGED <<rowActive, setActive, setError, taskResult, sessionOutcome,
                   publishCalls, sinkOutcome, alerts, passWriteBack,
                   poolVars, ruleVars, acctVars, labVars, fwdVars, normVars>>

\* process_client: the finally block, publish_stats and the write-back after it
PublishStats(sink) ==
    /\ passPc = "finally"
    /\ publishCalls' = publishCalls + 1
    /\ sinkOutcome' = sink
    /\ IF sink = "ok"
       THEN /\ alerts' = Append(alerts, AlertText(passErrors, passProcessed, passSuccessful,
                                                  setActive, setError))
            /\ passWriteBack' = {"active", "error", "link"}
       ELSE UNCHANGED <<alerts, passWriteBack>>
    /\ passPc' = "done"
    /\ passRaised' = RaisedFor(passExit)
    /\ UNCHANGED <<rowActive, setActive, setError, taskResult, passErrors, passProcessed,
                   passSuccessful, sessionOutcome, passExit,
                   poolVars, ruleVars, acctVars, labVars, fwdVars, normVars>>

PassNext ==
    \/ LoadSettings
    \/ \E ok \in BOOLEAN : LoadResults(ok)
    \/ \E outcome \in SessionOutcomes : PassSessionEnter(outcome)
    \/ \E r \in Rules, outcome \in TaskOutcomes : TaskEnds(r, outcome)
    \/ ResultsTaken
    \/ \E sink \in {"ok", "raises"} : PublishStats(sink)

InitPass == PoolIdle /\ RulesIdle /\ AccountIdle /\ LabIdle /\ ForwardIdle /\ SettingIdle /\ PassInit

SpecPass == InitPass /\ [][PassNext]_vars

(***************************************************************************)
(* Part VI: forwarding a message or its media group                        *)
(*                                                                         *)
(* SenderAccount._forward_grouped_or_single and _get_grouped_message_ids   *)
(* of messaging/telegram_sender.py against one source chat.  A step is the *)
(* code between two requests to the platform.  iter_messages is Telethon's:*)
(* offset_id is exclusive in both directions, without reverse the messages *)
(* older than offset_id come newest first, with reverse=True the messages  *)
(* newer than offset_id come oldest first.                                 *)
(***************************************************************************)

\* the message ids of the source chat
MaxMsgId == 5

\* search_window of _get_grouped_message_ids (50 in the code), in messages
search_window == 2

GroupIds == {"g1", "g2"}

MsgIds == 1..MaxMsgId

\* the messages that exist in the chat h
Existing(h) == {i \in MsgIds : h[i] # "absent"}

\* iter_messages(offset_id=m, limit=search_window, reverse=True): the ids it yields
NewerIds(h, m) ==
    {i \in Existing(h) :
        i > m /\ Cardinality({j \in Existing(h) : m < j /\ j < i}) < search_window}

\* iter_messages(offset_id=m, limit=search_window): the ids it yields
OlderIds(h, m) ==
    {i \in Existing(h) :
        i < m /\ Cardinality({j \in Existing(h) : i < j /\ j < m}) < search_window}

RECURSIVE SortedIds(_)
\* sorted(list(S))
SortedIds(S) ==
    IF S = {} THEN << >>
    ELSE <<CHOOSE x \in S : \A y \in S : x <= y>>
            \o SortedIds(S \ {CHOOSE x \in S : \A y \in S : x <= y})

\* the elements of a list
Elements(q) == {q[i] : i \in DOMAIN q}

\* the first loop: the members of the group among the newer messages
FirstLoopIds(h, m) == {i \in NewerIds(h, m) : h[i] = h[m]}

\* the second loop: the members among the older messages, the target excluded
SecondLoopIds(h, m) == {i \in OlderIds(h, m) : h[i] = h[m] /\ i # m}

\* _get_grouped_message_ids when no fetch fails
GroupedIdsFrom(h, m) == SortedIds(FirstLoopIds(h, m) \cup SecondLoopIds(h, m))

\* how a fetch of the history can end
FetchOutcomes == {"ok", "ValueError", "RPCError"}

\* _forward_grouped_or_single: message_ids
MessageIds(h, m, grouped) ==
    IF h[m] \in GroupIds
    THEN IF grouped = << >> THEN <<m>> ELSE SortedIds(Elements(grouped))
    ELSE <<m>>

\* an album is posted at once and is small against the window: between two
\* members of one group lie fewer than search_window messages
GroupsFitWindow(h) ==
    \A i, j \in MsgIds :
        (i < j /\ h[i] \in GroupIds /\ h[i] = h[j])
            => Cardinality({k \in Existing(h) : i < k /\ k < j}) < search_window

ForwardInit ==
    /\ history \in {h \in [MsgIds -> {"absent", "single"} \cup GroupIds] : GroupsFitWindow(h)}
    /\ anchor \in MsgIds
    /\ fwdPc = "start"
    /\ grouped_messages = << >>
    /\ forwardedIds = << >>
    /\ fetchFailure = "none"
    /\ fwdRaised = "none"

\* get_messages returned the source message or nothing
GetSourceMessage ==
    /\ fwdPc = "start"
    /\ IF history[anchor] = "absent"
       THEN /\ fwdRaised' = "ValueError"
            /\ fwdPc' = "done"
       ELSE /\ fwdPc' = IF history[anchor] \in GroupIds THEN "first" ELSE "forward"
            /\ UNCHANGED fwdRaised
    /\ UNCHANGED <<history, anchor, grouped_messages, forwardedIds, fetchFailure,
                   poolVars, ruleVars, acctVars, labVars, passVars, normVars>>

\* a loop of _get_grouped_message_ids ended with an exception
FetchFails(outcome) ==
    /\ fetchFailure' = outcome
    /\ IF outcome = "ValueError"
       THEN /\ fwdPc' = "forward"
            /\ UNCHANGED fwdRaised
       ELSE /\ fwdPc' = "done"
            /\ fwdRaised' = outcome

\* the first loop of _get_grouped_message_ids
FirstLoop(outcome) ==
    /\ fwdPc = "first"
    /\ IF outcome = "ok"
       THEN /\ grouped_messages' = SortedIds(FirstLoopIds(history, anchor))
            /\ fwdPc' = "second"
            /\ UNCHANGED <<fetchFailure, fwdRaised>>
       ELSE /\ FetchFails(outcome)
            /\ UNCHANGED grouped_messages
    /\ UNCHANGED <<history, anchor, forwardedIds,
                   poolVars, ruleVars, acctVars, labVars, passVars, normVars>>

\* the second loop of _get_grouped_message_ids and the sort after it
SecondLoop(outcome) ==
    /\ fwdPc = "second"
    /\ IF outcome = "ok"
       THEN /\ grouped_messages' =
                 SortedIds(Elements(grouped_messages) \cup SecondLoopIds(history, anchor))
            /\ fwdPc' = "forward"
            /\ UNCHANGED <<fetchFailure, fwdRaised>>
       ELSE /\ FetchFails(outcome)
            /\ UNCHANGED grouped_messages
    /\ UNCHANGED <<history, anchor, forwardedIds,
                   poolVars, ruleVars, acctVars, labVars, passVars, normVars>>

\* ForwardMessagesRequest is sent
ForwardRequest ==
    /\ fwdPc = "forward"
    /\ forwardedIds' = MessageIds(history, anchor, grouped_messages)
    /\ fwdPc' = "done"
    /\ UNCHANGED <<history, anchor, grouped_messages, fetchFailure, fwdRaised,
                   poolVars, ruleVars, acctVars, labVars, passVars, normVars>>

ForwardNext ==
    \/ GetSourceMessage
    \/ \E outcome \in FetchOutcomes : FirstLoop(outcome)
    \/ \E outcome \in FetchOutcomes : SecondLoop(outcome)
    \/ ForwardRequest

InitForward ==
    PoolIdle /\ RulesIdle /\ AccountIdle /\ LabIdle /\ PassIdle /\ SettingIdle /\ ForwardInit

SpecForward == InitForward /\ [][ForwardNext]_vars

(***************************************************************************)
(* Part VII: the account column of a rule                                  *)
(*                                                                         *)
(* Setting.account_must_be_phone_number of core/settings.py, applied to    *)
(* drawn texts.  A text is the sequence of its characters.                 *)
(***************************************************************************)

\* Mutant: the parentheses are not stripped.
Separators_noParentheses == {" ", "+", "-"}

\* the characters of " +-()"
Separators == {" ", "+", "-", "(", ")"}

Digits == {"0", "1", "2", "3", "4", "5", "6", "7", "8", "9"}

IsSeparator(c) == c \in Separators

\* the loop of v.replace(s, "")
StripSeparators(v) == SelectSeq(v, LAMBDA c : ~IsSeparator(c))

\* str.isdigit
IsDigitText(v) == v # << >> /\ \A i \in DOMAIN v : v[i] \in Digits

\* str.startswith for a one-character prefix
StartsWith(v, c) == v # << >> /\ v[1] = c

\* if v.startswith("8"): v = f"7{v[1:]}"
Leading8(v) == IF StartsWith(v, "8") THEN <<"7">> \o Tail(v) ELSE v

\* if v.startswith("9"): v = f"7{v}"
Leading9(v) == IF StartsWith(v, "9") THEN <<"7">> \o v ELSE v

\* the validator from the digits check on
CheckedPhone(v) ==
    IF ~IsDigitText(v) THEN <<"ValueError", "digits only">>
    ELSE IF Len(Leading9(Leading8(v))) # 11 THEN <<"ValueError", "11 digits long">>
    ELSE <<"ok", Leading9(Leading8(v))>>

\* Setting.account_must_be_phone_number
account_must_be_phone_number(v) == CheckedPhone(StripSeparators(v))

\* the beginnings, middles and ends the texts are put together from
PhoneHeads ==
    {<< >>, <<"+">>, <<"7">>, <<"8">>, <<"9">>, <<"+", "7", " ">>, <<"8", " ">>, <<"+", "8">>, <<"a">>, <<"7", "9">>, <<"8", "9">>}

PhoneMiddles == {<<"9", "9", "9", " ", "1", "2", "3", " ", "4", "5", " ", "6">>, <<"(", "9", "9", "9", ")", " ", "1", "2", "3", "-", "4", "5", "-", "6">>, <<"2", "3", "4", "5", "6", "7", "-", "8", "9">>}

PhoneTails == {<< >>, <<"7">>, <<"7", "8">>, <<"x">>, <<"7", " ">>}

PhoneSamples == {h \o m \o t : h \in PhoneHeads, m \in PhoneMiddles, t \in PhoneTails}

SettingInit ==
    /\ phoneText \in PhoneSamples
    /\ phoneResult = <<"none">>

\* the validator runs on the text
ValidateAccount ==
    /\ phoneResult = <<"none">>
    /\ phoneResult' = account_must_be_phone_number(phoneText)
    /\ UNCHANGED <<phoneText, poolVars, ruleVars, acctVars, labVars, passVars, fwdVars>>

SettingNext == ValidateAccount

InitSetting ==
    PoolIdle /\ RulesIdle /\ AccountIdle /\ LabIdle /\ PassIdle /\ ForwardIdle /\ SettingInit

SpecSetting == InitSetting /\ [][SettingNext]_vars





(***************************************************************************)
(* Claims about the account pool (checked under SpecPool)                  *)
(***************************************************************************)

\* C1: for two passes opening session() against the same session store, at
\* most one of them is inside the session body at any time.
C1_AtMostOneInBody == Cardinality({p \in Passes : pc[p] = "body"}) <= 1

\* C2: in "raise" mode, when exactly one account's start fails, the session
\* body is never entered and, once the scope has exited, the pass has left no
\* lock marker behind.
C2_RaiseModeOneFailure ==
    \A p \in Passes :
        (invalid[p] = "raise" /\ Cardinality({a \in Accounts : startTask[p][a] = "raised"}) = 1)
            => /\ ~bodyEntered[p]
               /\ pc[p] # "body"
               /\ (pc[p] = "exited" => p \notin lockMarker)

\* C2 witness: a "raise" pass has exited with exactly one failed start and a
\* sibling account whose start succeeded.
C2_Witness ==
    \E p \in Passes :
        /\ invalid[p] = "raise"
        /\ pc[p] = "exited"
        /\ Cardinality({a \in Accounts : startTask[p][a] = "raised"}) = 1
        /\ \E a \in Accounts : startTask[p][a] = "done"

\* C3: on every path out of session() after the lock check passed, once scope
\* exit completes the pass's lock marker is absent and no account of the pool
\* has started = TRUE, including accounts whose start settles later.
C3_ExitReleasesAndStopsAll ==
    \A p \in Passes :
        pc[p] = "exited" =>
            /\ p \notin lockMarker
            /\ \A a \in Accounts : ~started[p][a]

\* C4: if the lock marker exists when session() is entered, the call fails
\* immediately: no account start is attempted, the body does not run, and the
\* pass changes nothing else.
C4_LockedEntryFailsImmediately ==
    /\ [][\A p \in Passes :
            (pc[p] = "idle" /\ LockPresent /\ pc'[p] # "idle") =>
                /\ pc'[p] = "inUse"
                /\ propagated'[p] = "SessionsInUse"
                /\ startTask'[p] = [a \in Accounts |-> "none"]
                /\ started' = started
                /\ bodyEntered' = bodyEntered
                /\ lockMarker' = lockMarker
                /\ sessionFile' = sessionFile]_vars
    /\ [](\A p \in Passes :
            pc[p] = "inUse" =>
                /\ \A a \in Accounts : startTask[p][a] = "none" /\ ~started[p][a]
                /\ ~bodyEntered[p])

\* C4 witness: a pass was refused while the other one held the marker.
C4_Witness ==
    \E p, q \in Passes : pc[p] = "inUse" /\ q \in lockMarker /\ pc[q] = "body"

\* C5: the lock marker is written only after every start task of the pool has
\* settled and only when the start phase did not raise.
C5_MarkerOnlyAfterSettledSuccess ==
    \A p \in Passes :
        p \in lockMarker =>
            /\ \A a \in Accounts : startTask[p][a] \in {"done", "raised"}
            /\ (invalid[p] # "ignore" => \A a \in Accounts : startTask[p][a] = "done")

\* C5 witness: the marker was written in "ignore" mode after a failed start,
\* and in a raising mode after every start succeeded.
C5_Witness ==
    \E p \in Passes :
        /\ p \in lockMarker
        /\ invalid[p] = "ignore"
        /\ \E a \in Accounts : startTask[p][a] = "raised"
        /\ \E a \in Accounts : startTask[p][a] = "done"

\* C6: during teardown a failing stop() does not keep the other accounts from
\* being stopped, teardown waits until every stop has settled, and the stop
\* failure is not propagated out of the session scope.
C6_StopFailureContained ==
    \A p \in Passes :
        pc[p] = "exited" =>
            /\ \A a \in Accounts : stopTask[p][a] # "pending"
            /\ propagated[p] # "stop"

\* C38: no pass removes the lock marker of another pass: while a pass is
\* inside its session body the marker it wrote is present, whatever the
\* other pass does, a failure in its start phase included.
C38_MarkerKeptWhileInBody == \A p \in Passes : pc[p] = "body" => p \in lockMarker

(***************************************************************************)
(* Claims about rule dispatch (checked under SpecDispatch)                 *)
(***************************************************************************)

C8_NeverSentAlwaysDue ==
    /\ \A r \in Rules :
            prior[r] = "none" =>
                /\ attempt[r] = RNever
                /\ was_processed[r]
                /\ (~logFailed[r] => result[r] = RNever)
    /\ gathered =>
            processed_count =
                Cardinality({r \in Rules : prior[r] = "none"})
                  + Cardinality({r \in Rules : prior[r] # "none" /\ was_processed[r]})

\* C8 witness: a never-sent rule whose schedule is not even a valid cron
\* expression ended with the "never sent before" outcome and was counted.
C8_Witness ==
    \E r \in Rules :
        /\ prior[r] = "none"
        /\ ~CronValid(schedule[r])
        /\ result[r] = RNever
        /\ gathered
        /\ processed_count >= 1

\* C9: if writing the log entry fails, the rule is not disabled because of
\* that failure: a rule whose send or forward succeeded stays active, and in
\* general the rule is disabled only when the outcome of the attempt itself
\* is an error outcome.
C9_LogFailureKeepsRule ==
    \A r \in Rules :
        (logFailed[r] /\ prior[r] # "unknown") =>
            /\ (attempt[r] \in {RSent, RForwarded} => active[r])
            /\ (active[r] <=> ~Contains(Lower(attempt[r]), "error"))

\* C10: after a rule is processed it is disabled (active = false) with its
\* error field set to the outcome text if and only if its final outcome
\* contains "error" case-insensitively; and every error classification of
\* send_setting, as well as the invalid-cron outcome, ends in such an outcome.
C10_DisabledIffError ==
    /\ \A r \in Rules :
            rpc[r] \in {"done", "linking"} =>
                ((~active[r] /\ error[r] = result[r]) <=> Contains(Lower(result[r]), "error"))
    /\ \A r \in Rules :
            attempt[r] \in {ErrorText(kind) : kind \in ErrorKinds} \cup {RCronError} =>
                /\ Contains(Lower(result[r]), "error")
                /\ ~active[r]
                /\ error[r] = result[r]

\* C10 witness: one rule was disabled by the payment-required outcome and
\* another by the invalid-cron outcome, each carrying its outcome text.
C10_Witness ==
    \E r1, r2 \in Rules :
        /\ result[r1] = ErrorText("RPCPayment") /\ issued[r1] # "none"
        /\ ~active[r1] /\ error[r1] = result[r1]
        /\ result[r2] = RCronError /\ prior[r2] = "some"
        /\ ~active[r2] /\ error[r2] = result[r2]

\* C11: the rules of one client group run as concurrent tasks, and a failure
\* (an exception or an error outcome) in one rule's pipeline never prevents a
\* sibling from running to a final outcome: whatever the siblings did, a task
\* that has not returned can take its next step, and every task returns and
\* the gather collects the results.
C11_SiblingsRunToOutcome ==
    /\ [](\A r \in Rules : rpc[r] # "done" => ENABLED RuleNext(r))
    /\ <>(gathered /\ \A r \in Rules : rpc[r] = "done" /\ result[r] # NoText)

\* C11 witness: one rule ended with an error outcome and was disabled, its
\* sibling sent its message afterwards or before, and the gather returned.
C11_Witness ==
    \E r, q \in Rules :
        /\ r # q
        /\ r \in errors /\ Contains(Lower(result[r]), "error") /\ ~active[r]
        /\ result[q] = RSent /\ was_successful[q]
        /\ gathered

\* C12: at the end of a pass processed_count is the number of rules whose
\* outcome is neither "skipped" nor "already sent recently" (a rule failing
\* with an invalid cron expression or an unexpected exception included),
\* successful_count is the number of those that completed without error, and
\* successful_count <= processed_count.
C12_CountsByOutcome ==
    gathered =>
        /\ processed_count = Cardinality({r \in Rules : result[r] \notin {RSkipped, RAlready}})
        /\ successful_count =
               Cardinality({r \in Rules : /\ result[r] \notin {RSkipped, RAlready}
                                          /\ ~Contains(Lower(result[r]), "error")})
        /\ successful_count <= processed_count

\* C12, amended: processed_count is the number of rules that were found due
\* (never sent before, or a prior success and a valid cron expression that is
\* due), whatever the send then gave; a rule that fails before it is found due
\* (invalid cron expression, exception while the last success is read) is not
\* counted.  successful_count is the number of counted rules whose final
\* outcome contains "successfully" and not "error", and
\* successful_count <= processed_count.
C12_CountsDueRules ==
    gathered =>
        /\ processed_count =
               Cardinality({r \in Rules :
                               \/ prior[r] = "none"
                               \/ prior[r] = "some" /\ attempt[r] \notin {RAlready, RCronError}})
        /\ successful_count =
               Cardinality({r \in Rules :
                               /\ prior[r] \in {"none", "some"}
                               /\ Contains(Lower(result[r]), "successfully")
                               /\ ~Contains(Lower(result[r]), "error")})
        /\ successful_count <= processed_count

\* C12 witness: the counts were taken in a pass where one rule failed on its
\* cron expression (not counted) and one rule was due and ended without error
\* and without success (counted as processed only).
C12_Witness ==
    \E r, q \in Rules :
        /\ gathered
        /\ result[r] = RCronError
        /\ issued[q] # "none" /\ ~Contains(Lower(result[q]), "error")
        /\ ~Contains(Lower(result[q]), "successfully")
        /\ processed_count = 1
        /\ successful_count = 0

C14_InactiveIsSkipped ==
    /\ [][\A r \in Rules :
            ~active[r] =>
                /\ active'[r] = active[r] /\ schedule'[r] = schedule[r]
                /\ chat_id'[r] = chat_id[r] /\ error'[r] = error[r]
                /\ link'[r] = link[r] /\ issued'[r] = issued[r]]_vars
    /\ [][\A r \in Rules :
            (rpc[r] = "new" /\ ~active[r] /\ rpc'[r] # "new")
            => /\ result'[r] = RSkipped
               /\ rpc'[r] = "done"
               /\ ~was_processed'[r]
               /\ logRows' = logRows]_vars
    /\ [](\A r \in Rules :
            result[r] = RSkipped =>
                /\ ~active[r] /\ prior[r] = "unknown" /\ rpc[r] = "done"
                /\ issued[r] = "none"
                /\ ~was_processed[r] /\ ~was_successful[r]
                /\ error[r] = ErrorText("ChatWriteForbidden") /\ link[r] = ""
                /\ r \notin errors
                /\ \A row \in logRows : row[1] # r)

\* C14 witness: an inactive rule was skipped in a pass in which an active
\* rule on the same chat had a slow-mode wait handled and written back.
C14_Witness ==
    \E r, q \in Rules :
        /\ result[r] = RSkipped
        /\ q # r /\ chat_id[q] = chat_id[r]
        /\ issued[q] # "none" /\ writeBacks # << >>
        /\ gathered


\* C19: a slow-mode wait raised for one rule rewrites the schedules of the
\* rules that are active and share the triggering rule's destination chat,
\* and of no other rule: a rule on another chat and an inactive rule keep
\* their schedule and error as they were.  Among the active rules of the
\* chat the handler rewrites those whose interval is shorter than the
\* required one and counts them in its result.
C19_SlowModeRewritesOnlyRelated ==
    /\ [][\A s \in Rules :
            schedule'[s] # schedule[s] =>
                \E r \in Rules :
                    /\ rpc[r] = "sending" /\ rpc'[r] = "done"
                    /\ active[s] /\ chat_id[s] = chat_id[r]]_vars
    /\ [][\A r, s \in Rules :
            (rpc[r] = "sending" /\ rpc'[r] = "done" /\ s # r
             /\ (~active[s] \/ chat_id[s] # chat_id[r]))
            => (schedule'[s] = schedule[s] /\ error'[s] = error[s])]_vars
    /\ [][\A r \in Rules :
            (rpc[r] = "sending" /\ rpc'[r] = "done" /\ Len(attempt'[r]) > 1
             /\ attempt'[r][1] = "Schedule")
            => \E w \in WaitInputs :
                 /\ w.known
                 /\ attempt'[r] =
                      RAutoAdjusted(RequiredHours(w.seconds),
                                    Cardinality({s \in Rules : schedule'[s] # schedule[s]}),
                                    chat_id[r])
                 /\ \A s \in Rules :
                      (active[s] /\ chat_id[s] = chat_id[r]) =>
                          IF Sufficient(calculate_interval_hours(schedule[s]),
                                        RequiredHours(w.seconds))
                          THEN schedule'[s] = schedule[s]
                          ELSE schedule'[s] = Rewritten(schedule[s], RequiredHours(w.seconds))]_vars

\* C19 witness: a slow-mode wait of a rule on one chat rewrote that rule's
\* schedule while an active rule with the same short interval on the other
\* chat kept its schedule and its empty error.
C19_Witness ==
    \E r, s \in Rules :
        /\ rpc[r] = "done" /\ Len(attempt[r]) > 1 /\ attempt[r][1] = "Schedule"
        /\ schedule[r] # S30 /\ Len(error[r]) > 0
        /\ chat_id[s] # chat_id[r] /\ active[s]
        /\ schedule[s] = S30 /\ error[s] = NoText

\* C20: after a slow-mode wait is handled, every active rule on the
\* triggering rule's chat has had its error field set by the handler, whether
\* or not its own schedule was changed, also when some of them were rewritten
\* and others were already sufficient.
C20_EveryRelatedErrorUpdated ==
    [][\A r, s \in Rules :
        (/\ rpc[r] = "sending" /\ rpc'[r] = "done"
         /\ Len(attempt'[r]) > 1
         /\ attempt'[r][1] = "Schedule" \/ attempt'[r][2] = RNoAdjustment(1, chat_id[r])[2]
         /\ s # r /\ active[s] /\ chat_id[s] = chat_id[r])
        => /\ Len(error'[s]) > 0
           /\ error'[s][1] \in {"schedule changed from",
                                OptimalMessage(3600, 1)[1]}]_vars

C34_JoinFailureSwallowed ==
    \A r \in Rules :
        (rpc[r] = "done" /\ attempt[r] = ErrorText("ValueErrorNoUser")) => issued[r] # "none"

\* the texts handle_slow_mode_error writes into the error column
SlowModeAnnotation(text) ==
    /\ text # NoText
    /\ text[1] \in {"schedule changed from",
                    "slow mode detected but the schedules are already optimal, wait"}

\* C37: a rule whose send raised a slow-mode wait with known seconds is not
\* disabled: once its task is done it is active, its schedule is sufficient
\* for the wait, its error column holds the annotation of the handler, and
\* it is processed and not successful; with the seconds unknown it has an
\* error outcome and is disabled.
C37_SlowModeKeepsRuleActive ==
    \A r \in Rules :
        (rpc[r] = "done" /\ slowWait[r].hit) =>
            IF slowWait[r].known
            THEN /\ active[r]
                 /\ Sufficient(calculate_interval_hours(schedule[r]),
                               RequiredHours(slowWait[r].seconds))
                 /\ SlowModeAnnotation(error[r])
                 /\ was_processed[r]
                 /\ ~was_successful[r]
            ELSE /\ ~active[r]
                 /\ HasError(error[r])
                 /\ r \in errors

\* C40: for two rules on one chat processed concurrently, one of which hits
\* a slow-mode wait with known seconds, the error and active columns at the
\* end do not depend on which task completed first.  A sibling that ended
\* with a "...successfully" result and completed last holds its own stamp
\* and is active; so it holds the stamp and is active in every order.
C40_OrderIndependentColumns ==
    \A r, s \in Rules :
        (/\ r # s /\ chat_id[r] = chat_id[s]
         /\ rpc[r] = "done" /\ rpc[s] = "done"
         /\ slowWait[r].hit /\ slowWait[r].known
         /\ HasSuccessfully(result[s]))
            => error[s] = ROkStamp /\ active[s]

(***************************************************************************)
(* Claims about one Account (checked under SpecAccount)                    *)
(***************************************************************************)

\* C15: in every reachable state of an Account, after any sequence of start,
\* failed start, revalidation and stop, the client handle is non-null if and
\* only if started is true.
C15_ClientIffStarted == (app # "none") <=> accStarted

\* C16: stop() on a started account writes the exported session to the
\* session store before the client teardown begins, so the store holds the
\* client's current session while the teardown runs and after it failed or
\* was interrupted; stop() on an account that is not started changes nothing.
C16_SavedBeforeTeardown ==
    /\ [](accPc = "tearing" => (accStarted /\ accFile = appSession /\ accFile # 0))
    /\ []((accOp = "stop" /\ accRaised = "teardown") =>
              (accFile = appSession /\ accFile # 0))
    /\ [][(accPc # "tearing" /\ accPc' = "tearing") =>
              (accPc = "exporting" /\ accFile' = appSession)]_vars
    /\ [][(calls' = calls + 1 /\ accOp' = "stop" /\ ~accStarted) =>
              (accPc' = "idle" /\ accRaised' = "none"
               /\ UNCHANGED <<app, appSession, accStarted, accFile>>)]_vars

\* C16 witness: an account that had no stored session was revalidated and
\* started, and its stop() failed in the teardown with the new session
\* already in the store.
C16_Witness ==
    /\ accOp = "stop" /\ accRaised = "teardown"
    /\ ~hadFile /\ appSession >= 2 /\ accFile = appSession
    /\ accStarted

\* C17: starting an account for which the session store holds no session,
\* under a policy other than "revalidate" (pool modes "ignore" and "raise",
\* and Account.session entered with "ignore" or "raise"), fails without
\* requesting a one-time code, and started stays false.
C17_NoSessionFailsWithoutCode ==
    (accOp = "start" /\ ~hadFile /\ accPolicy # "revalidate") =>
        /\ accPc = "idle"
        /\ accRaised = "NoSession"
        /\ ~codeAsked
        /\ ~accStarted

C18_WitnessNotPermitted ==
    /\ accOp = "start" /\ hadFile /\ revalidate = PyBool(FALSE)
    /\ appStarts = 1 /\ accRaised = "auth" /\ ~codeAsked /\ ~accStarted


(***************************************************************************)
(* Claims about the scheduling functions (checked under SpecLab)           *)
(***************************************************************************)

C23_NonPositiveWaitIsOneHour ==
    (fn = "required_hours" /\ fnArgs.w <= 0) => fnResult.hours = 1

\* C24: adjust_cron_interval is idempotent: for every valid 5-field schedule
\* s and required hours h >= 1, adjust(adjust(s, h), h) = adjust(s, h).
C24_Idempotent ==
    (fn = "adjust_again" /\ fnArgs.h >= 1) => fnResult.adj2 = fnResult.adj

\* C24 as the code has it: the second application returns what the first
\* returned when both read the same clock, and at any later clock when the
\* first application rewrote the schedule; in every case it returns its
\* argument or the rewriting of its argument.
C24_IdempotentAtOneClock ==
    (fn = "adjust_again" /\ fnArgs.h >= 1) =>
        /\ fnResult.adj2.ok
        /\ fnArgs.clock2 = fnArgs.clock => fnResult.adj2 = fnResult.adj
        /\ fnResult.adj.v # fnArgs.s => fnResult.adj2 = fnResult.adj
        /\ fnResult.adj2.v \in {fnResult.adj.v, Rewritten(fnResult.adj.v, fnArgs.h)}

\* C24 witness: a schedule rewritten to the daily run for a required interval
\* above 24 hours, still shorter than required, was adjusted again at the
\* same clock.
C24_Witness ==
    /\ fn = "adjust_again" /\ fnArgs.clock2 = fnArgs.clock
    /\ fnArgs.h > 24
    /\ fnResult.adj.v # fnArgs.s
    /\ fnResult.adj2 = fnResult.adj

\* C25: for every 5-field schedule s and every required hours h, the
\* day-of-month, month and day-of-week fields of adjust_cron_interval(s, h)
\* are those of s.
C25_DayFieldsKept ==
    (fn \in {"adjust", "adjust_again"} /\ Len(fnArgs.s) = 5) =>
        /\ fnResult.adj.ok
        /\ Len(fnResult.adj.v) = 5
        /\ \A i \in 3..5 : fnResult.adj.v[i] = fnArgs.s[i]
        /\ fn = "adjust_again" => \A i \in 3..5 : fnResult.adj2.v[i] = fnArgs.s[i]

\* C25 witness: "30 14 1 * 1-5" was rewritten.
C25_Witness ==
    /\ fn = "adjust"
    /\ fnArgs.s[3] = Num(1) /\ fnArgs.s[5] = Range(1, 5)
    /\ fnResult.adj.v # fnArgs.s

C27_DueIffFireInWindow ==
    (fn = "check_cron" /\ CronValid(fnArgs.s)) =>
        (fnResult.due = "not due"
         <=> ~\E t \in (fnArgs.last + 1)..fnArgs.n : Fires(fnArgs.s, t))

\* C27 witness: the schedule fires exactly at last_run and not again up to
\* now, and check_cron returned false.
C27_Witness ==
    /\ fn = "check_cron" /\ CronValid(fnArgs.s)
    /\ fnArgs.last < fnArgs.n
    /\ Fires(fnArgs.s, fnArgs.last)
    /\ fnResult.due = "not due"

\* C28: check_cron_tz evaluates the schedule on the wall clock of the
\* schedule's timezone: for Europe/Moscow its result is that of the schedule
\* on both instants shifted by three hours, so "0 9 * * *" is not due
\* between 08:30 and 09:30 UTC and "0 14 * * *" is due between 10:30 and
\* 11:30 UTC.
C28_DueOnMoscowWallClock ==
    (fn = "check_cron_tz" /\ CronValid(fnArgs.s)) =>
        /\ fnResult.due = "due"
             <=> \E t \in (fnArgs.last + 181)..(fnArgs.n + 180) : Fires(fnArgs.s, t)
        /\ (fnArgs.s = S9 /\ fnArgs.last = 1440 + 510 /\ fnArgs.n = 1440 + 570)
             => fnResult.due = "not due"
        /\ (fnArgs.s = <<Num(0), Num(14), Star, Star, Star>>
            /\ fnArgs.last = 1440 + 630 /\ fnArgs.n = 1440 + 690)
             => fnResult.due = "due"

\* C28 witness: "0 9 * * *" between 05:30 and 06:30 UTC, that is across
\* 09:00 in Moscow, was found due.
C28_Witness ==
    /\ fn = "check_cron_tz"
    /\ fnArgs.s = S9 /\ fnArgs.last = 1440 + 330 /\ fnArgs.n = 1440 + 360
    /\ fnResult.due = "due"

\* C39: whenever adjust_cron_interval(s, h) returns a schedule other than s,
\* any two fire times of the returned schedule are at least h hours apart,
\* for every h >= 1, those that do not divide 24 and those above 24 included.
C39_FiresAtLeastRequiredApart ==
    (fn = "adjust" /\ fnResult.adj.ok /\ fnResult.adj.v # fnArgs.s) =>
        \A u, w \in FireTimes(fnResult.adj.v, 0) : u < w => w - u >= fnArgs.h * 60

(***************************************************************************)
(* Claims about one pass over a client group (checked under SpecPass)      *)
(***************************************************************************)

\* C29: when an account fails to start, the alert published at the end of
\* the pass has the critical message and the pointer to the sheet as its
\* body, not the statistics, and no rule was disabled by the failure.
C29_CriticalAlertOnStartFailure ==
    (passPc = "done" /\ sessionOutcome = "AccountStartFailed") =>
        /\ \A i \in DOMAIN alerts : alerts[i].kind = "critical"
        /\ setActive = rowActive

C36_WriteBackOnEveryPath ==
    passPc = "done" => passWriteBack = {"active", "error", "link"}

(***************************************************************************)
(* Claims about forwarding (checked under SpecForward)                     *)
(***************************************************************************)

\* C31: for an anchor message that exists in the source chat, the id list
\* handed to the forward request contains the anchor's id, for an anchor
\* without group identifier and for an anchor of a media group.
C31_AnchorForwarded ==
    (fwdPc = "done" /\ fwdRaised = "none") => anchor \in Elements(forwardedIds)

\* C32: with the history unchanged, the list resolved for a media group is
\* the list resolved from every other anchor of the same group, and it is
\* sorted ascending, free of duplicates and holds only ids of messages that
\* carry the group identifier.
C32_SameListFromEveryAnchor ==
    (fwdPc \in {"forward", "done"} /\ history[anchor] \in GroupIds /\ fetchFailure = "none") =>
        /\ \A b \in MsgIds :
              history[b] = history[anchor] => GroupedIdsFrom(history, b) = grouped_messages
        /\ \A i, j \in DOMAIN grouped_messages :
              i < j => grouped_messages[i] < grouped_messages[j]
        /\ \A i \in DOMAIN grouped_messages :
              history[grouped_messages[i]] = history[anchor]

\* C33: when a fetch of the history window failed while the group was being
\* resolved, the forward is still made, with the list [anchor] and nothing
\* else, and nothing is raised.
C33_FetchFailureForwardsAnchorAlone ==
    (fwdPc = "done" /\ fetchFailure # "none") =>
        /\ fwdRaised = "none"
        /\ forwardedIds = <<anchor>>

(***************************************************************************)
(* Claims about the account column (checked under SpecSetting)             *)
(***************************************************************************)

\* C35: the validator strips the separators, rejects a text with any other
\* non-digit, and accepts exactly: 11 digits beginning with 8, given back
\* with 7 in place of the 8; 10 digits beginning with 9, given back with 7
\* in front; 11 digits beginning with neither, given back as they are.  So
\* "8 999 123 45 67" and "+7 (999) 123-45-67" both give "79991234567", and
\* a text that has 10 or 12 digits after the rules is rejected.
C35_PhoneNormalization ==
    phoneResult # <<"none">> /\ phoneResult # <<"idle">> =>
        /\ phoneResult[1] = "ok" <=>
              /\ \A i \in DOMAIN phoneText : phoneText[i] \in Digits \cup {" ", "+", "-", "(", ")"}
              /\ \E i \in DOMAIN phoneText : phoneText[i] \in Digits
              /\ Len(SelectSeq(phoneText, LAMBDA c : c \in Digits))
                   = IF SelectSeq(phoneText, LAMBDA c : c \in Digits)[1] = "9" THEN 10 ELSE 11
        /\ phoneResult[1] = "ok" =>
              /\ Len(phoneResult[2]) = 11
              /\ phoneResult[2][1] = IF SelectSeq(phoneText, LAMBDA c : c \in Digits)[1] \in {"8", "9"}
                                     THEN "7"
                                     ELSE SelectSeq(phoneText, LAMBDA c : c \in Digits)[1]
              /\ \A k \in 1..10 :
                    phoneResult[2][12 - k]
                      = SelectSeq(phoneText, LAMBDA c : c \in Digits)
                            [Len(SelectSeq(phoneText, LAMBDA c : c \in Digits)) + 1 - k]
        /\ phoneText \in {<<"8", " ", "9", "9", "9", " ", "1", "2", "3", " ", "4", "5", " ", "6", "7">>, <<"+", "7", " ", "(", "9", "9", "9", ")", " ", "1", "2", "3", "-", "4", "5", "-", "6", "7">>}
              => phoneResult = <<"ok", <<"7", "9", "9", "9", "1", "2", "3", "4", "5", "6", "7">>>>

\* C35 witness: "+7 (999) 123-45-67" was validated and gave "79991234567".
C35_Witness ==
    /\ phoneText = <<"+", "7", " ", "(", "9", "9", "9", ")", " ", "1", "2", "3", "-", "4", "5", "-", "6", "7">>
    /\ phoneResult = <<"ok", <<"7", "9", "9", "9", "1", "2", "3", "4", "5", "6", "7">>>>

=============================================================================
